---- MODULE Spec2Model ----
(***************************************************************************)
(* Rate-lock workflow of ai-rate-lock-system-sk: the Service Bus listener  *)
(* loop, the stage handlers it invokes, the Cosmos DB record store and     *)
(* the throttled LLM call.                                                 *)
(***************************************************************************)
EXTENDS Integers, Sequences, FiniteSets, TLC

(* ------------------------------ bounds --------------------------------- *)
\* messages the broker ever puts on the listened subscription
MaxSends == 2
\* deliveries of one message before the broker dead-letters it
MaxDelivery == 2
\* calls made on the record store by plugin clients other than the handler
MaxStoreCalls == 3
\* handler tasks that may be in an LLM call at the same time
MaxTasks == 3
\* calls made on the ServiceBusOperations instances
MaxBusOps == 3
\* listener coroutines started on the main instance
MaxListeners == 2

Loans == {"LA1"}

(* ------------------------- program constants --------------------------- *)
\* receiver.receive_messages(max_wait_time=60, max_message_count=3)
max_message_count == 3
MAX_CONCURRENT_OPENAI_CALLS == 2
\* _call_llm(..., max_retries: int = 5)
max_retries == 5

(* ------------------------------ agents --------------------------------- *)
\* agent classes instantiated by AIRateLockSystem.__init__
WiredAgents ==
    {"email_intake", "loan_context", "rate_quote", "compliance_risk",
     "lock_confirmation", "audit_logging", "exception_handler"}

\* handler classes built on BaseAgent: BaseAgent.handle_message as
\* inherited, and the RateQuoteAgent of rate_quote_agent_old.py
BaseAgentClasses == {"base_agent", "rate_quote_old"}

Agents == WiredAgents \cup BaseAgentClasses

MessageTypes ==
    {"email_parsed", "context_retrieval_needed", "context_retrieved",
     "rate_quoted", "rates_presented", "compliance_passed",
     "audit_event", "exception_alert"}

\* the message types a handler processes; the others are skipped
expected_message_types(a) ==
    CASE a = "rate_quote"        -> {"context_retrieved"}
      [] a = "rate_quote_old"    -> {"context_retrieved"}
      [] a = "compliance_risk"   -> {"rates_presented"}
      [] a = "lock_confirmation" -> {"compliance_passed"}
      [] a = "audit_logging"     -> {"audit_event"}
      [] a = "exception_handler" -> {"exception_alert"}
      [] OTHER                   -> MessageTypes

(* ------------------------ plugin layer as coded ------------------------ *)
\* keyword parameters accepted by ServiceBusPlugin(...): the class defines
\* no __init__
ServiceBusPluginInitParams == {}

\* keyword arguments each agent passes to ServiceBusPlugin(...)
ServiceBusPluginInitArgs(a) ==
    IF a \in BaseAgentClasses THEN {} ELSE {"debug", "session_id"}

ServiceBusPluginMethods ==
    {"send_workflow_event", "send_audit_log", "send_exception",
     "send_outbound_message", "send_message_to_topic",
     "send_message_to_queue", "send_audit_event", "send_exception_alert",
     "close"}

CosmosDBPluginMethods ==
    {"create_rate_lock", "get_rate_lock", "update_rate_lock_status",
     "create_audit_log", "get_audit_logs", "create_exception", "close"}

PricingEnginePluginMethods == {"get_rate_options", "close"}

\* parameters of the two exception-sending plugin methods
send_exception_params ==
    {"exception_type", "priority", "loan_application_id", "exception_data"}

send_exception_alert_params ==
    {"exception_type", "priority", "message", "loan_application_id"}

\* CosmosDBPlugin.get_rate_lock returns a dict with these keys
get_rate_lock_keys ==
    {"found", "loan_application_id", "message", "error", "id", "status",
     "loanApplicationId", "created_at", "updated_at", "loan_context"}

\* get_rate_lock returns a dict, not JSON text: json.loads of it raises
get_rate_lock_returns_text == FALSE

\* the listener hands the handler the dict built by
\* _create_standard_message; EmailIntakeAgent.handle_message calls
\* message.strip(), which only text has
standard_message_is_text == FALSE

\* logical destination names known to ServiceBusOperations
queues == {"inbound_email", "outbound_confirmations",
           "high_priority_exceptions"}

\* (the name behind "agent-workflow-events" comes from a configuration
\* getter; the model takes the configuration as loaded)
topics == {"agent-workflow-events", "loan_lifecycle", "audit_events",
           "compliance_events", "exception_alerts"}

\* ServiceBusOperations.send_message: TRUE iff the message was sent
send_message(destination_name, destination_type, busOk) ==
    /\ IF destination_type = "topic"
       THEN destination_name \in topics
       ELSE destination_name \in queues
    /\ busOk

\* ServiceBusOperations.send_exception_alert
send_exception_alert(priority, busOk) ==
    IF priority \in {"high", "critical"}
    THEN send_message("high-priority-exceptions", "queue", busOk)
    ELSE send_message("agent-workflow-events", "topic", busOk)

\* ServiceBusOperations.send_workflow_message
send_workflow_message(busOk) ==
    send_message("agent-workflow-events", "topic", busOk)

(* ----------------------------- record store --------------------------- *)
\* statuses a client of the store passes as the target of an update
Statuses ==
    {"PENDING_CONTEXT", "CONTEXT_RETRIEVED", "RATES_QUOTED",
     "COMPLIANCE_CHECKED", "LOCKED", "EXCEPTION"}

\* a loan with no record in the rate_lock_records container
NoRecord ==
    [exists |-> FALSE, rid |-> 0, ver |-> 0, status |-> "none",
     hist |-> <<>>, ctx |-> FALSE]

\* update_details handed to the plugin: may carry a status field and a
\* status_history field of its own
NoPatch == [hasStatus |-> FALSE, status |-> "none", hasHist |-> FALSE,
            hist |-> <<>>]

Patches ==
    {NoPatch,
     [hasStatus |-> TRUE, status |-> "EXCEPTION", hasHist |-> FALSE,
      hist |-> <<>>],
     [hasStatus |-> FALSE, status |-> "none", hasHist |-> TRUE,
      hist |-> <<"PENDING_CONTEXT">>]}

\* CosmosDBOperations.create_rate_lock_record: a record with a fresh id;
\* get_rate_lock_record returns the newest record of the loan
create_rate_lock_record(rec, rid, status, ctx, storeOk) ==
    IF storeOk
    THEN [exists |-> TRUE, rid |-> rid, ver |-> 0, status |-> status,
          hist |-> <<>>, ctx |-> ctx]
    ELSE rec

\* CosmosDBPlugin.update_rate_lock_status: the updates dict it builds
status_history_update(new_status, patch) ==
    (IF patch.hasHist THEN patch.hist ELSE <<>>) \o <<new_status>>

\* CosmosDBOperations.update_rate_lock_status applied to the updates built
\* by the plugin: status is set, then the updates dict is merged over the
\* record
update_rate_lock_status(rec, new_status, patch, storeOk) ==
    IF rec.exists /\ storeOk
    THEN [rec EXCEPT
            !.status = IF patch.hasStatus THEN patch.status ELSE new_status,
            !.hist = status_history_update(new_status, patch),
            !.ver = @ + 1]
    ELSE rec

\* TRUE iff the update call reports success
update_succeeds(rec, storeOk) == rec.exists /\ storeOk

(* ------------------------------ handlers ------------------------------- *)
\* outcomes of the external collaborators during one handler run
Env == [ext : BOOLEAN, store : BOOLEAN, bus : BOOLEAN, passed : BOOLEAN]

\* _initialize_kernel raises TypeError when ServiceBusPlugin(...) is given
\* keyword arguments its constructor does not take
initialize_kernel_raises(a) ==
    ~(ServiceBusPluginInitArgs(a) \subseteq ServiceBusPluginInitParams)

\* the agent's _send_exception_alert helper: TRUE iff an alert is sent
agent_send_exception_alert(a, priority, e) ==
    LET method == IF a \in BaseAgentClasses \cup {"email_intake"}
                  THEN "send_exception" ELSE "send_exception_alert"
        args == CASE a = "base_agent" ->
                       {"exception_type", "priority", "error_message",
                        "loan_application_id", "agent_name",
                        "additional_data"}
                  [] a = "rate_quote_old" ->
                       {"exception_type", "priority", "loan_application_id",
                        "error_message", "agent_name"}
                  [] OTHER ->
                       {"exception_type", "priority", "loan_application_id",
                        "exception_data"}
        params == IF method = "send_exception"
                  THEN send_exception_params
                  ELSE send_exception_alert_params
    IN  /\ method \in ServiceBusPluginMethods
        /\ args = params
        /\ send_exception_alert(priority, e.bus)

\* what one run of handle_message did
Result(raised, excepted, read, upd, status, wf, alerts, confirms) ==
    [raised |-> raised, excepted |-> excepted, read |-> read, upd |-> upd,
     status |-> status, wf |-> wf, alerts |-> alerts, confirms |-> confirms]

\* handle_message raised before doing anything
Raised == Result(TRUE, TRUE, FALSE, FALSE, "none", {}, {}, 0)

\* handle_message returned at the unexpected-type check
Skipped == Result(FALSE, FALSE, FALSE, FALSE, "none", {}, {}, 0)

\* alerts sent by the except clause of a handler
technical_error(a, e) ==
    IF agent_send_exception_alert(a, "high", e)
    THEN {"TECHNICAL_ERROR"} ELSE {}

\* the try block of handle_message failed: the except clause ran
Failed(a, read, e) ==
    Result(FALSE, TRUE, read, FALSE, "none", {}, technical_error(a, e), 0)

\* LoanApplicationContextAgent defines no handle_message: the call made
\* by the listener's wrapper raises AttributeError
loan_context_handle(m, rec, e) == Raised

\* the message_type a stage sends on the workflow when its handler
\* succeeded ("none": the stage sends no workflow message)
success_message_type(a) ==
    CASE a = "email_intake"    -> "context_retrieval_needed"
      [] a = "rate_quote"      -> "rates_presented"
      [] a = "rate_quote_old"  -> "rate_quoted"
      [] a = "compliance_risk" -> "compliance_passed"
      [] OTHER                 -> "none"

\* the topic that message goes to: the intake stage sends to
\* loan_lifecycle, the others through send_workflow_message
success_topic(a) ==
    IF a = "email_intake" THEN "loan_lifecycle" ELSE "agent-workflow-events"

\* the first steps shared by the wired quote, compliance and lock
\* handlers: get_rate_lock, json.loads, the "success" check
record_fetched(rec, e) ==
    /\ get_rate_lock_returns_text
    /\ "success" \in get_rate_lock_keys
    /\ rec.exists
    /\ e.store

\* the wired handlers' _send_workflow_message helper
agent_send_workflow_message(e) ==
    /\ "send_workflow_message" \in ServiceBusPluginMethods
    /\ send_workflow_message(e.bus)

\* RateQuoteAgent.handle_message (rate_quote_agent.py)
rate_quote_handle(m, rec, e) ==
    IF initialize_kernel_raises("rate_quote") THEN Raised
    ELSE IF m.mtype # "context_retrieved" THEN Skipped
    ELSE IF /\ record_fetched(rec, e)
            /\ rec.ctx
            /\ e.ext
            /\ "update_rate_lock" \in CosmosDBPluginMethods
    THEN Result(FALSE, FALSE, TRUE, TRUE, "RateOptionsPresented",
                IF agent_send_workflow_message(e)
                THEN {success_message_type("rate_quote")} ELSE {}, {}, 0)
    ELSE Failed("rate_quote", TRUE, e)

\* ComplianceRiskAgent.handle_message
compliance_risk_handle(m, rec, e) ==
    IF initialize_kernel_raises("compliance_risk") THEN Raised
    ELSE IF m.mtype # "rates_presented" THEN Skipped
    ELSE IF /\ record_fetched(rec, e)
            /\ e.ext
            /\ "update_rate_lock" \in CosmosDBPluginMethods
    THEN IF e.passed
         THEN Result(FALSE, FALSE, TRUE, TRUE, "CompliancePassed",
                     IF agent_send_workflow_message(e)
                     THEN {success_message_type("compliance_risk")}
                     ELSE {}, {}, 0)
         ELSE Result(FALSE, FALSE, TRUE, TRUE, "ComplianceFailed", {},
                     IF agent_send_exception_alert("compliance_risk",
                                                   "medium", e)
                     THEN {"COMPLIANCE_FAILURE"} ELSE {}, 0)
    ELSE Failed("compliance_risk", TRUE, e)

\* a lock handler whose calls all reach their targets: it locks and
\* confirms on every compliance_passed message
lock_confirmation_handle_reaching(m, rec, e) ==
    IF m.mtype # "compliance_passed" THEN Skipped
    ELSE IF rec.exists /\ e.store /\ e.ext /\ e.bus
    THEN Result(FALSE, FALSE, TRUE, TRUE, "Locked", {}, {}, 1)
    ELSE Failed("lock_confirmation", TRUE, e)

\* a lock handler whose calls reach their targets as far as the
\* notifications of step 4, with the update of step 5 failing as it does
lock_confirmation_handle_notifying(m, rec, e) ==
    IF m.mtype # "compliance_passed" THEN Skipped
    ELSE IF rec.exists /\ e.store /\ e.ext /\ e.bus
    THEN Result(FALSE, TRUE, TRUE, FALSE, "none", {},
                technical_error("lock_confirmation", e), 1)
    ELSE Failed("lock_confirmation", TRUE, e)

\* LockConfirmationAgent.handle_message: the rate lock is executed and the
\* confirmation notifications are sent before the record is updated; the
\* record's current status is not consulted
lock_confirmation_handle(m, rec, e) ==
    IF initialize_kernel_raises("lock_confirmation") THEN Raised
    ELSE IF m.mtype # "compliance_passed" THEN Skipped
    ELSE LET locked == /\ record_fetched(rec, e)
                       /\ "execute_rate_lock" \in PricingEnginePluginMethods
                       /\ e.ext
             notified == /\ locked
                         /\ "send_message_to_topic"
                                \in ServiceBusPluginMethods
                         /\ send_message("outbound_email", "topic", e.bus)
             updated == /\ notified
                        /\ "update_rate_lock" \in CosmosDBPluginMethods
         IN  Result(FALSE, ~updated, TRUE, updated,
                    IF updated THEN "Locked" ELSE "none", {},
                    IF updated THEN {}
                    ELSE technical_error("lock_confirmation", e),
                    IF notified THEN 1 ELSE 0)

\* parameters create_audit_log and create_exception require, and how many
\* positional arguments the audit and exception handlers pass
create_audit_log_required == 4
create_audit_log_passed == 1
create_exception_required == 4
create_exception_passed == 2

\* AuditLoggingAgent.handle_message
audit_logging_handle(m, rec, e) ==
    IF initialize_kernel_raises("audit_logging") THEN Raised
    ELSE IF m.mtype # "audit_event" THEN Skipped
    ELSE IF create_audit_log_passed >= create_audit_log_required
    THEN Result(FALSE, FALSE, FALSE, FALSE, "none", {},
                IF ~e.store /\ agent_send_exception_alert("audit_logging",
                                                          "critical", e)
                THEN {"LOGGING_FAILURE"} ELSE {}, 0)
    ELSE Failed("audit_logging", FALSE, e)

\* an exception handler that reports its own failure as an exception
\* alert
exception_handler_handle_alerting(m, rec, e) ==
    IF m.mtype # "exception_alert" THEN Skipped
    ELSE Result(initialize_kernel_raises("exception_handler"), TRUE,
                FALSE, FALSE, "none", {}, {"TECHNICAL_ERROR"}, 0)

\* ExceptionHandlerAgent.handle_message: its except clause only logs
exception_handler_handle(m, rec, e) ==
    IF initialize_kernel_raises("exception_handler") THEN Raised
    ELSE IF m.mtype # "exception_alert" THEN Skipped
    ELSE Result(FALSE,
                ~(e.ext /\ create_exception_passed
                              >= create_exception_required),
                FALSE, FALSE, "none", {}, {}, 0)

\* EmailIntakeAgent.handle_message (email_intake_agent.py): no type check;
\* on success the record is created with PENDING_CONTEXT and
\* context_retrieval_needed goes to the loan_lifecycle topic
email_intake_handle(m, rec, e) ==
    IF initialize_kernel_raises("email_intake") THEN Raised
    ELSE IF standard_message_is_text /\ e.ext
            /\ send_message(success_topic("email_intake"), "topic", e.bus)
    THEN Result(FALSE, FALSE, FALSE, TRUE, "PENDING_CONTEXT",
                {success_message_type("email_intake")}, {}, 0)
    ELSE Failed("email_intake", FALSE, e)

\* BaseAgent.handle_message as inherited: _get_expected_message_types
\* returns None, so every type is processed; the except clause sends the
\* alert and re-raises
base_agent_handle(m, rec, e) ==
    IF initialize_kernel_raises("base_agent") THEN Raised
    ELSE IF e.ext
    THEN Result(FALSE, FALSE, FALSE, FALSE, "none", {}, {}, 0)
    ELSE Result(TRUE, TRUE, FALSE, FALSE, "none", {},
                technical_error("base_agent", e), 0)

\* BaseAgent._send_workflow_event: calls the plugin's send_workflow_event,
\* failures are logged
agent_send_workflow_event(e) ==
    /\ "send_workflow_event" \in ServiceBusPluginMethods
    /\ send_workflow_message(e.bus)

\* RateQuoteAgent.handle_message (rate_quote_agent_old.py): the outcome of
\* update_rate_lock_status is not inspected
rate_quote_old_handle(m, rec, e) ==
    IF initialize_kernel_raises("rate_quote_old") THEN Raised
    ELSE IF m.mtype # "context_retrieved" THEN Skipped
    ELSE IF rec.exists /\ e.store /\ rec.ctx /\ e.ext
    THEN Result(FALSE, FALSE, TRUE, TRUE, "RATES_QUOTED",
                IF agent_send_workflow_event(e)
                THEN {success_message_type("rate_quote_old")} ELSE {}, {}, 0)
    ELSE Failed("rate_quote_old", TRUE, e)

\* the handler the listener of agent a invokes (main.py wrapper)
handle_message(a, m, rec, e) ==
    CASE a = "email_intake"      -> email_intake_handle(m, rec, e)
      [] a = "loan_context"      -> loan_context_handle(m, rec, e)
      [] a = "rate_quote"        -> rate_quote_handle(m, rec, e)
      [] a = "compliance_risk"   -> compliance_risk_handle(m, rec, e)
      [] a = "lock_confirmation" -> lock_confirmation_handle(m, rec, e)
      [] a = "audit_logging"     -> audit_logging_handle(m, rec, e)
      [] a = "exception_handler" -> exception_handler_handle(m, rec, e)
      [] a = "rate_quote_old"    -> rate_quote_old_handle(m, rec, e)
      [] OTHER                   -> base_agent_handle(m, rec, e)

\* the record after the handler's store call
record_after(res, rec, rid, e) ==
    IF ~res.upd THEN rec
    ELSE IF res.status = "PENDING_CONTEXT"
    THEN create_rate_lock_record(rec, rid, res.status, FALSE, e.store)
    ELSE update_rate_lock_status(rec, res.status, NoPatch, e.store)

(* ------------------------------ listener ------------------------------- *)
VARIABLES
    agent,      \* the agent whose listener is modelled
    stop,       \* stop_event.is_set()
    lphase,     \* position of the listener loop
    inbox,      \* messages waiting on the subscription or queue
    batch,      \* received_msgs not yet iterated
    cur,        \* the message handed to the handler
    records,    \* rate_lock_records container, newest record per loan
    nrec,       \* records created so far
    last,       \* what the listener did with the last message it settled
    sent,       \* workflow message types published so far
    confirmations, \* lock confirmations published, per loan
    nsent,      \* messages delivered to the subscription so far
    ncalls,     \* store calls made by other plugin clients so far
    tagent,     \* the agent class of each handler task
    tpc,        \* where each handler task is in its LLM call
    retry_count, \* retry_count of _call_llm, per task
    attempts,   \* LLM calls made by the current invocation, per task
    toutcome,   \* how the last LLM call of the task ended
    permits     \* free slots of _openai_semaphore

llmVars == <<tagent, tpc, retry_count, attempts, toutcome, permits>>

VARIABLES
    active_credentials, \* len(_active_credentials) of each instance
    open_credentials,   \* credentials created and not closed, per instance
    listening,          \* listener coroutines running on the main instance
    busop,              \* the last call on an instance and its outcome
    shutdown,           \* shutdown_system has returned
    nops                \* calls made so far

busVars == <<active_credentials, open_credentials, listening, busop,
             shutdown, nops>>

VARIABLES
    intake      \* what the last run of the intake handler was given and did

intakeVars == <<intake>>

VARIABLES
    items,      \* the items of the RateLockRecords container
    sec,        \* the second the clock shows
    now,        \* instants of the clock read so far
    cosmoscall, \* the last create or get call and what it returned
    upd         \* the update_rate_lock_status calls under way

cosmosVars == <<items, sec, now, cosmoscall, upd>>

VARIABLES
    hpc,          \* where the handler task of each stage listener stands
    hmsg,         \* the message each of them was handed
    subscription, \* the messages waiting on each stage's subscription
    wrote,        \* the record update calls that returned, and what with
    published     \* the workflow messages the stages have sent

stageVars == <<hpc, hmsg, subscription, wrote, published>>

VARIABLES
    wfcall,     \* the arguments of the send_workflow_message call under way
    wire,       \* the ServiceBusMessage the broker holds for the listener
    normalized  \* what _create_standard_message made of the received message

tripVars == <<wfcall, wire, normalized>>

\* Python None, as an argument, a dict.get result or a JSON null
PyNone == "None"

NoCall == [pc |-> "idle", message_type |-> PyNone,
           loan_application_id |-> PyNone, message_data |-> <<>>,
           correlation_id |-> PyNone, ok |-> FALSE]

NoWire == [body |-> <<>>, correlation_id |-> PyNone,
           application_properties |-> <<>>]

NoNormalized == [message_type |-> PyNone, loan_application_id |-> PyNone,
                 correlation_id |-> PyNone]

TripIdle ==
    /\ wfcall = NoCall
    /\ wire = NoWire
    /\ normalized = NoNormalized

VARIABLES
    rx          \* a receive-once call and the entity it reads from

rxVars == <<rx>>

NoRx == [pc |-> "idle", op |-> "none", entity |-> <<>>,
         received_msgs |-> <<>>, messages |-> <<>>,
         completed |-> {}, abandoned |-> {}, unsettled |-> {},
         result |-> <<>>, calls |-> 0]

RxIdle == rx = NoRx

vars == <<agent, stop, lphase, inbox, batch, cur, records, nrec, last, sent,
          confirmations, nsent, ncalls, llmVars, busVars,
          intakeVars,
          cosmosVars,
          stageVars,
          tripVars,
          rxVars>>

\* the stage classes that read and update the record of an application
StageAgents ==
    {"rate_quote", "rate_quote_old", "compliance_risk", "lock_confirmation"}

\* no message in the hands of a handler
NoStageMessage == [mtype |-> "none", loan |-> "none", by |-> "none", dc |-> 0]

StageIdle ==
    /\ hpc = [a \in StageAgents |-> "idle"]
    /\ hmsg = [a \in StageAgents |-> NoStageMessage]
    /\ subscription = [a \in StageAgents |-> {}]
    /\ wrote = {}
    /\ published = {}

\* the callers of update_rate_lock_status that may run at the same time
Updaters == {"u1", "u2"}

\* an id no item has
NoItemId == <<"none", "none", 0>>

\* what read_item or a query gives when there is nothing to give
NoItem ==
    [id |-> NoItemId, loanApplicationId |-> "none", created_at |-> 0,
     status |-> "none", last_updated_by |-> "none", etag |-> 0]

\* no call on the container made yet
NoCosmosCall ==
    [op |-> "none", loan |-> "none", record_id |-> NoItemId,
     storeOk |-> TRUE, ok |-> FALSE, raised |-> FALSE, found |-> FALSE,
     value |-> NoItem]

\* an update_rate_lock_status call that has not started
NoUpdate ==
    [pc |-> "idle", loan |-> "none", record_id |-> NoItemId,
     status |-> "none", updates |-> {}, current_record |-> NoItem,
     read_at |-> 0, wrote_at |-> 0, storeOk |-> TRUE, res |-> FALSE]

CosmosIdle ==
    /\ items = {}
    /\ sec = 0
    /\ now = 0
    /\ cosmoscall = NoCosmosCall
    /\ upd = [u \in Updaters |-> NoUpdate]

\* the loan id the extraction call returned: None, or a text
NoId == [none |-> TRUE, text |-> <<>>]

\* no run of the intake handler yet
NoIntake ==
    [pc |-> "idle", extracted |-> NoId,
     e |-> [ext |-> TRUE, store |-> TRUE, bus |-> TRUE, passed |-> TRUE],
     raised |-> FALSE, outbound |-> {}, created |-> "none", wf |-> {},
     alerts |-> {}]

IntakeIdle == intake = NoIntake

\* the ServiceBusOperations instances of the process: the one main.py
\* creates and the module-level one of service_bus_plugin.py
Instances == {"main", "plugin"}

NoBusOp ==
    [op |-> "none", inst |-> "none", priority |-> "none", busOk |-> FALSE,
     ok |-> FALSE, dest |-> "none", kind |-> "none",
     MessageType |-> "none", TargetAgent |-> "none", Priority |-> "none",
     clientOk |-> TRUE, closeOk |-> TRUE, attempts |-> 0,
     accepted |-> FALSE, raised |-> FALSE, cancelled |-> FALSE,
     destination_name |-> "none", destination_type |-> "none"]

\* no call made yet on either instance
BusIdle ==
    /\ active_credentials = [i \in Instances |-> 0]
    /\ open_credentials = [i \in Instances |-> 0]
    /\ listening = 0
    /\ busop = NoBusOp
    /\ shutdown = FALSE
    /\ nops = 0

\* tasks that run handlers concurrently, one per listener
Tasks == 1..MaxTasks

\* no handler task is in an LLM call
LlmIdle ==
    /\ tagent = [t \in Tasks |-> "base_agent"]
    /\ tpc = [t \in Tasks |-> "idle"]
    /\ retry_count = [t \in Tasks |-> 0]
    /\ attempts = [t \in Tasks |-> 0]
    /\ toutcome = [t \in Tasks |-> "none"]
    /\ permits = MAX_CONCURRENT_OPENAI_CALLS

\* a message type the handler of agent a processes
NominalType(a) ==
    IF expected_message_types(a) = MessageTypes
    THEN "context_retrieval_needed"
    ELSE CHOOSE t \in expected_message_types(a) : TRUE

\* message types delivered to the listener of agent a: one it processes
\* and rate_quoted, which no type-checking handler of the wired system
\* expects
InputTypes(a) == {NominalType(a), "rate_quoted"}

\* what the broker delivers: the type in the MessageType property, the
\* message_type field of the body ("none" when the body has none), and
\* whether the body bytes decode
MessageKinds(a) ==
    (InputTypes(a) \X {"none"} \X {TRUE})
    \cup {<<"rate_quoted", NominalType(a), TRUE>>,
          <<"rate_quoted", "none", FALSE>>}

NoMessage ==
    [ptype |-> "none", btype |-> "none", loan |-> "none",
     decodable |-> TRUE, dc |-> 0]

\* _parse_message_body: bytes that are not UTF-8 make decode() raise
parse_message_body_raises(msg) == ~msg.decodable

\* _create_standard_message: MessageType from the application properties,
\* overridden by a message_type field of a JSON body
create_standard_message(msg) ==
    [mtype |-> IF msg.btype # "none" THEN msg.btype ELSE msg.ptype,
     loan |-> msg.loan]

NoResult == Result(FALSE, FALSE, FALSE, FALSE, "none", {}, {}, 0)

NoLast ==
    [kind |-> "none", dc |-> 0, mtype |-> "none", expected |-> FALSE,
     res |-> NoResult, before |-> "none", completeCalled |-> FALSE,
     completeRaised |-> FALSE, abandonCalled |-> FALSE,
     completed |-> FALSE, abandoned |-> FALSE]

\* records found in the container when the listener starts: none, the one
\* intake creates, and records other clients of the store left behind
StoredRecords ==
    {NoRecord,
     create_rate_lock_record(NoRecord, 1, "PENDING_CONTEXT", FALSE, TRUE),
     update_rate_lock_status(
         create_rate_lock_record(NoRecord, 1, "PENDING_CONTEXT", TRUE, TRUE),
         "CONTEXT_RETRIEVED", NoPatch, TRUE),
     update_rate_lock_status(
         create_rate_lock_record(NoRecord, 1, "PENDING_CONTEXT", TRUE, TRUE),
         "LOCKED", NoPatch, TRUE)}

Init ==
    /\ agent \in Agents
    /\ stop = FALSE
    /\ lphase = "receive"
    /\ inbox = <<>>
    /\ batch = <<>>
    /\ cur = NoMessage
    /\ records \in [Loans -> StoredRecords]
    /\ nrec = 1
    /\ last = NoLast
    /\ sent = {}
    /\ confirmations = [l \in Loans |-> 0]
    /\ nsent = 0
    /\ ncalls = 0
    /\ LlmIdle
    /\ BusIdle
    /\ RxIdle
    /\ TripIdle
    /\ StageIdle
    /\ CosmosIdle
    /\ IntakeIdle

\* the broker puts a message on the subscription the listener reads
Enqueue(k, l) ==
    /\ nsent < MaxSends
    /\ nsent' = nsent + 1
    /\ inbox' = Append(inbox, [ptype |-> k[1], btype |-> k[2], loan |-> l,
                               decodable |-> k[3], dc |-> 1])
    /\ UNCHANGED <<agent, stop, lphase, batch, cur, records, nrec, last,
                   sent, confirmations, ncalls>>
    /\ UNCHANGED llmVars
    /\ UNCHANGED busVars
    /\ UNCHANGED rxVars
    /\ UNCHANGED tripVars
    /\ UNCHANGED stageVars
    /\ UNCHANGED cosmosVars
    /\ UNCHANGED intakeVars

\* a message whose lock was released or lost comes back, unless it has
\* used up its deliveries
requeue(msg) ==
    IF msg.dc < MaxDelivery THEN <<[msg EXCEPT !.dc = @ + 1]>> ELSE <<>>

RECURSIVE requeue_all(_)
requeue_all(msgs) ==
    IF msgs = <<>> THEN <<>>
    ELSE requeue(Head(msgs)) \o requeue_all(Tail(msgs))

Min(x, y) == IF x < y THEN x ELSE y

\* a receive call that hands over everything the subscription holds
Receive_whole_subscription ==
    /\ lphase = "receive"
    /\ ~stop
    /\ inbox # <<>>
    /\ \E k \in 1..Len(inbox) :
          /\ batch' = SubSeq(inbox, 1, k)
          /\ inbox' = SubSeq(inbox, k + 1, Len(inbox))
    /\ lphase' = "batch"
    /\ UNCHANGED <<agent, stop, cur, records, nrec, last, sent,
                   confirmations, nsent, ncalls>>
    /\ UNCHANGED llmVars
    /\ UNCHANGED busVars
    /\ UNCHANGED rxVars
    /\ UNCHANGED tripVars
    /\ UNCHANGED stageVars
    /\ UNCHANGED cosmosVars
    /\ UNCHANGED intakeVars

\* receiver.receive_messages(max_wait_time=60, max_message_count=3)
Receive ==
    /\ lphase = "receive"
    /\ ~stop
    /\ inbox # <<>>
    /\ \E k \in 1..Min(Len(inbox), max_message_count) :
          /\ batch' = SubSeq(inbox, 1, k)
          /\ inbox' = SubSeq(inbox, k + 1, Len(inbox))
    /\ lphase' = "batch"
    /\ UNCHANGED <<agent, stop, cur, records, nrec, last, sent,
                   confirmations, nsent, ncalls>>
    /\ UNCHANGED llmVars
    /\ UNCHANGED busVars
    /\ UNCHANGED rxVars
    /\ UNCHANGED tripVars
    /\ UNCHANGED stageVars
    /\ UNCHANGED cosmosVars
    /\ UNCHANGED intakeVars

\* a listener that completes every message, whether or not the handler
\* raised
settle_completing_always(raised, completeOk, abandonOk) ==
    [completeCalled |-> TRUE,
     completeRaised |-> ~completeOk,
     abandonCalled |-> raised \/ ~completeOk,
     abandonRaised |-> (raised \/ ~completeOk) /\ ~abandonOk,
     completed |-> completeOk,
     abandoned |-> (raised \/ ~completeOk) /\ abandonOk /\ ~completeOk]

\* the try/except around one message: complete_message after the handler
\* returned, abandon_message in the except clause, which also catches an
\* exception raised by complete_message itself
settle(raised, completeOk, abandonOk) ==
    LET completeCalled == ~raised
        completeRaised == completeCalled /\ ~completeOk
        abandonCalled == raised \/ completeRaised
    IN  [completeCalled |-> completeCalled,
         completeRaised |-> completeRaised,
         abandonCalled |-> abandonCalled,
         abandonRaised |-> abandonCalled /\ ~abandonOk,
         completed |-> completeCalled /\ completeOk,
         abandoned |-> abandonCalled /\ abandonOk]

\* the subscription after msg was settled as st: a message that was not
\* completed is delivered again; an exception from abandon_message leaves
\* the for loop, so the rest of the batch is never settled
inbox_after(st, msg, rest) ==
    inbox \o (IF st.completed THEN <<>> ELSE requeue(msg))
          \o (IF st.abandonRaised THEN requeue_all(rest) ELSE <<>>)

batch_after(st, rest) == IF st.abandonRaised THEN <<>> ELSE rest

\* a listener whose loop ends when settling a message raised
lphase_after_leaving(st, rest) ==
    IF st.abandonRaised THEN "exited"
    ELSE IF batch_after(st, rest) = <<>> THEN "receive" ELSE "batch"

\* where the loop goes on after a message was settled: the next message
\* of the batch, or the next receive call (after the sleep of the outer
\* except clause when abandon_message raised)
lphase_after(st, rest) ==
    IF batch_after(st, rest) = <<>> THEN "receive" ELSE "batch"

Log(kind, msg, m, res, before, st) ==
    [kind |-> kind, dc |-> msg.dc, mtype |-> m.mtype,
     expected |-> m.mtype \in expected_message_types(agent),
     res |-> res, before |-> before.status,
     completeCalled |-> st.completeCalled,
     completeRaised |-> st.completeRaised,
     abandonCalled |-> st.abandonCalled,
     completed |-> st.completed, abandoned |-> st.abandoned]

\* for msg in received_msgs, stop_event set: abandon without the handler
AbandonOnStop(abandonOk) ==
    /\ lphase = "batch"
    /\ stop
    /\ LET msg == Head(batch)
           rest == Tail(batch)
           st == [settle(TRUE, TRUE, abandonOk) EXCEPT
                     !.completeCalled = FALSE]
       IN  /\ inbox' = inbox_after(st, msg, rest)
           /\ batch' = batch_after(st, rest)
           /\ lphase' = lphase_after(st, rest)
           /\ last' = Log("stopped", msg, [mtype |-> "none"], NoResult,
                          NoRecord, st)
    /\ UNCHANGED <<agent, stop, cur, records, nrec, sent, confirmations,
                   nsent, ncalls>>
    /\ UNCHANGED llmVars
    /\ UNCHANGED busVars
    /\ UNCHANGED rxVars
    /\ UNCHANGED tripVars
    /\ UNCHANGED stageVars
    /\ UNCHANGED cosmosVars
    /\ UNCHANGED intakeVars

\* _create_standard_message raised: the except clause abandons
NormalizationRaises(abandonOk) ==
    /\ lphase = "batch"
    /\ ~stop
    /\ parse_message_body_raises(Head(batch))
    /\ LET msg == Head(batch)
           rest == Tail(batch)
           st == settle(TRUE, TRUE, abandonOk)
       IN  /\ inbox' = inbox_after(st, msg, rest)
           /\ batch' = batch_after(st, rest)
           /\ lphase' = lphase_after(st, rest)
           /\ last' = Log("normfail", msg, [mtype |-> "none"], NoResult,
                          NoRecord, st)
    /\ UNCHANGED <<agent, stop, cur, records, nrec, sent, confirmations,
                   nsent, ncalls>>
    /\ UNCHANGED llmVars
    /\ UNCHANGED busVars
    /\ UNCHANGED rxVars
    /\ UNCHANGED tripVars
    /\ UNCHANGED stageVars
    /\ UNCHANGED cosmosVars
    /\ UNCHANGED intakeVars

\* a listener that hands the next message to the handler without looking
\* at the stop signal
InvokeHandler_ignoring_stop ==
    /\ lphase = "batch"
    /\ ~parse_message_body_raises(Head(batch))
    /\ cur' = Head(batch)
    /\ batch' = Tail(batch)
    /\ lphase' = "handling"
    /\ UNCHANGED <<agent, stop, inbox, records, nrec, last, sent,
                   confirmations, nsent, ncalls>>
    /\ UNCHANGED llmVars
    /\ UNCHANGED busVars
    /\ UNCHANGED rxVars
    /\ UNCHANGED tripVars
    /\ UNCHANGED stageVars
    /\ UNCHANGED cosmosVars
    /\ UNCHANGED intakeVars

\* message_dict built, await message_handler(message_dict) entered
InvokeHandler ==
    /\ lphase = "batch"
    /\ ~stop
    /\ ~parse_message_body_raises(Head(batch))
    /\ cur' = Head(batch)
    /\ batch' = Tail(batch)
    /\ lphase' = "handling"
    /\ UNCHANGED <<agent, stop, inbox, records, nrec, last, sent,
                   confirmations, nsent, ncalls>>
    /\ UNCHANGED llmVars
    /\ UNCHANGED busVars
    /\ UNCHANGED rxVars
    /\ UNCHANGED tripVars
    /\ UNCHANGED stageVars
    /\ UNCHANGED cosmosVars
    /\ UNCHANGED intakeVars

\* the workflow message the handler of agent a sent, as the topic the
\* agents listen on delivers it to their subscriptions:
\* send_workflow_message puts the type in the MessageType property and in
\* the message_type field of the body. No listener reads loan_lifecycle
delivered(a, wf, l) ==
    IF wf = {} \/ success_topic(a) # "agent-workflow-events" THEN <<>>
    ELSE LET t == CHOOSE x \in wf : TRUE
         IN  <<[ptype |-> t, btype |-> t, loan |-> l, decodable |-> TRUE,
                dc |-> 1]>>

\* the handler ran to its end (returned or raised) and the message was
\* settled
HandlerDone(e, completeOk, abandonOk) ==
    /\ lphase = "handling"
    /\ LET m == create_standard_message(cur)
           rec == records[m.loan]
           res == handle_message(agent, m, rec, e)
           st == settle(res.raised, completeOk, abandonOk)
           after == record_after(res, rec, nrec + 1, e)
       IN  /\ records' = [records EXCEPT ![m.loan] = after]
           /\ nrec' = IF after.rid # rec.rid THEN nrec + 1 ELSE nrec
           /\ sent' = sent \cup res.wf
           /\ confirmations' =
                 [confirmations EXCEPT ![m.loan] = @ + res.confirms]
           /\ inbox' = inbox_after(st, cur, batch)
                          \o delivered(agent, res.wf, m.loan)
           /\ batch' = batch_after(st, batch)
           /\ lphase' = lphase_after(st, batch)
           /\ last' = Log("handled", cur, m, res, rec, st)
    /\ cur' = NoMessage
    /\ UNCHANGED <<agent, stop, nsent, ncalls>>
    /\ UNCHANGED llmVars
    /\ UNCHANGED busVars
    /\ UNCHANGED rxVars
    /\ UNCHANGED tripVars
    /\ UNCHANGED stageVars
    /\ UNCHANGED cosmosVars
    /\ UNCHANGED intakeVars

\* shutdown_system sets the stop events
SetStop ==
    /\ ~stop
    /\ stop' = TRUE
    /\ UNCHANGED <<agent, lphase, inbox, batch, cur, records, nrec, last,
                   sent, confirmations, nsent, ncalls>>
    /\ UNCHANGED llmVars
    /\ UNCHANGED busVars
    /\ UNCHANGED rxVars
    /\ UNCHANGED tripVars
    /\ UNCHANGED stageVars
    /\ UNCHANGED cosmosVars
    /\ UNCHANGED intakeVars

\* while not stop_event.is_set() ends the loop
LoopExit ==
    /\ lphase = "receive"
    /\ stop
    /\ lphase' = "exited"
    /\ UNCHANGED <<agent, stop, inbox, batch, cur, records, nrec, last,
                   sent, confirmations, nsent, ncalls>>
    /\ UNCHANGED llmVars
    /\ UNCHANGED busVars
    /\ UNCHANGED rxVars
    /\ UNCHANGED tripVars
    /\ UNCHANGED stageVars
    /\ UNCHANGED cosmosVars
    /\ UNCHANGED intakeVars

\* a shutdown that cancels nothing: the listener task is left alone
Cancel_nothing ==
    /\ lphase = "handling"
    /\ stop
    /\ UNCHANGED vars

\* shutdown_system cancels a listener task still running after the stop
\* events were set: CancelledError leaves through except CancelledError,
\* the message in the handler and the rest of the batch stay unsettled
Cancel ==
    /\ lphase = "handling"
    /\ stop
    /\ inbox' = inbox \o requeue(cur) \o requeue_all(batch)
    /\ batch' = <<>>
    /\ cur' = NoMessage
    /\ lphase' = "exited"
    /\ UNCHANGED <<agent, stop, records, nrec, last, sent, confirmations,
                   nsent, ncalls>>
    /\ UNCHANGED llmVars
    /\ UNCHANGED busVars
    /\ UNCHANGED rxVars
    /\ UNCHANGED tripVars
    /\ UNCHANGED stageVars
    /\ UNCHANGED cosmosVars
    /\ UNCHANGED intakeVars

\* another client of the plugin creates a record for the loan
StoreCreate(l, status, ctx, storeOk) ==
    /\ ncalls < MaxStoreCalls
    /\ ncalls' = ncalls + 1
    /\ records' = [records EXCEPT ![l] =
                      create_rate_lock_record(@, nrec + 1, status, ctx,
                                              storeOk)]
    /\ nrec' = IF storeOk THEN nrec + 1 ELSE nrec
    /\ UNCHANGED <<agent, stop, lphase, inbox, batch, cur, last, sent,
                   confirmations, nsent>>
    /\ UNCHANGED llmVars
    /\ UNCHANGED busVars
    /\ UNCHANGED rxVars
    /\ UNCHANGED tripVars
    /\ UNCHANGED stageVars
    /\ UNCHANGED cosmosVars
    /\ UNCHANGED intakeVars

\* another client of the plugin calls update_rate_lock_status
StoreUpdate(l, new_status, patch, storeOk) ==
    /\ ncalls < MaxStoreCalls
    /\ ncalls' = ncalls + 1
    /\ records' = [records EXCEPT ![l] =
                      update_rate_lock_status(@, new_status, patch,
                                              storeOk)]
    /\ UNCHANGED <<agent, stop, lphase, inbox, batch, cur, nrec, last,
                   sent, confirmations, nsent>>
    /\ UNCHANGED llmVars
    /\ UNCHANGED busVars
    /\ UNCHANGED rxVars
    /\ UNCHANGED tripVars
    /\ UNCHANGED stageVars
    /\ UNCHANGED cosmosVars
    /\ UNCHANGED intakeVars

Next ==
    \/ \E k \in MessageKinds(agent), l \in Loans : Enqueue(k, l)
    \/ Receive
    \/ \E aOk \in BOOLEAN : AbandonOnStop(aOk)
    \/ \E aOk \in BOOLEAN : NormalizationRaises(aOk)
    \/ InvokeHandler
    \/ \E e \in Env, cOk \in BOOLEAN, aOk \in BOOLEAN :
          HandlerDone(e, cOk, aOk)
    \/ SetStop
    \/ LoopExit
    \/ Cancel

Spec == Init /\ [][Next]_vars

\* shutdown_system returns: asyncio.gather over the cancelled tasks has
\* returned, which it does when every one of them is done
ShutdownReturns ==
    /\ stop
    /\ lphase = "exited"
    /\ ~shutdown
    /\ shutdown' = TRUE
    /\ UNCHANGED <<active_credentials, open_credentials, listening, busop,
                   nops>>
    /\ UNCHANGED <<agent, stop, lphase, inbox, batch, cur, records, nrec,
                   last, sent, confirmations, nsent, ncalls>>
    /\ UNCHANGED llmVars
    /\ UNCHANGED rxVars
    /\ UNCHANGED tripVars
    /\ UNCHANGED stageVars
    /\ UNCHANGED cosmosVars
    /\ UNCHANGED intakeVars

NextStop ==
    \/ Next
    \/ ShutdownReturns

\* the listener under shutdown: its loop goes on while it can (the stop
\* checks are not delayed, an abandon call ends), a task still running
\* when the wait of shutdown_system is over is cancelled, and
\* shutdown_system goes on when the tasks are done. A handler is not
\* assumed to end by itself
SpecStop ==
    /\ Init
    /\ [][NextStop]_vars
    /\ WF_vars(LoopExit)
    /\ WF_vars(\E aOk \in BOOLEAN : AbandonOnStop(aOk))
    /\ WF_vars(Cancel)
    /\ WF_vars(ShutdownReturns)

\* the record store used on its own by the clients of the plugin
InitStore ==
    /\ agent = "base_agent"
    /\ stop = FALSE
    /\ lphase = "receive"
    /\ inbox = <<>>
    /\ batch = <<>>
    /\ cur = NoMessage
    /\ records = [l \in Loans |-> NoRecord]
    /\ nrec = 0
    /\ last = NoLast
    /\ sent = {}
    /\ confirmations = [l \in Loans |-> 0]
    /\ nsent = 0
    /\ ncalls = 0
    /\ LlmIdle
    /\ BusIdle
    /\ RxIdle
    /\ TripIdle
    /\ StageIdle
    /\ CosmosIdle
    /\ IntakeIdle

NextStore ==
    \/ \E l \in Loans, s \in {"PendingRequest", "PENDING_CONTEXT"},
          c \in BOOLEAN, ok \in BOOLEAN : StoreCreate(l, s, c, ok)
    \/ \E l \in Loans, s \in Statuses, p \in Patches, ok \in BOOLEAN :
          StoreUpdate(l, s, p, ok)

SpecStore == InitStore /\ [][NextStore]_vars

\* every collaborator call succeeds and all compliance checks pass
AllOk == [ext |-> TRUE, store |-> TRUE, bus |-> TRUE, passed |-> TRUE]

\* the types under which the intake stage announces an accepted
\* application: the one the workflow names and the one the handler sends
IntakeKinds ==
    {<<"email_parsed", "email_parsed", TRUE>>,
     <<success_message_type("email_intake"),
       success_message_type("email_intake"), TRUE>>}

\* the listener tasks of the wired agents run in one event loop: between
\* two batches another task gets its turn. Each agent listens on its own
\* subscription of the same topic, so whichever listener has the turn may
\* be the one that receives a waiting workflow message
Switch(a) ==
    /\ lphase = "receive"
    /\ batch = <<>>
    /\ a # agent
    /\ agent' = a
    /\ UNCHANGED <<stop, lphase, inbox, batch, cur, records, nrec, last,
                   sent, confirmations, nsent, ncalls>>
    /\ UNCHANGED llmVars
    /\ UNCHANGED busVars
    /\ UNCHANGED rxVars
    /\ UNCHANGED tripVars
    /\ UNCHANGED stageVars
    /\ UNCHANGED cosmosVars
    /\ UNCHANGED intakeVars

\* the wired system running with an application accepted by intake, no
\* failing collaborator, no shutdown
InitLive ==
    /\ agent \in WiredAgents
    /\ stop = FALSE
    /\ lphase = "receive"
    /\ inbox = <<>>
    /\ batch = <<>>
    /\ cur = NoMessage
    /\ records = [l \in Loans |->
                     create_rate_lock_record(NoRecord, 1, "PENDING_CONTEXT",
                                             FALSE, TRUE)]
    /\ nrec = 1
    /\ last = NoLast
    /\ sent = {}
    /\ confirmations = [l \in Loans |-> 0]
    /\ nsent = 0
    /\ ncalls = 0
    /\ LlmIdle
    /\ BusIdle
    /\ RxIdle
    /\ TripIdle
    /\ StageIdle
    /\ CosmosIdle
    /\ IntakeIdle

NextLive ==
    \/ \E k \in IntakeKinds, l \in Loans : Enqueue(k, l)
    \/ Receive
    \/ InvokeHandler
    \/ HandlerDone(AllOk, TRUE, TRUE)
    \/ \E a \in WiredAgents : Switch(a)

\* a waiting message is received, a received message is handled and
\* settled: the listener loops never pause while there is work
SpecLive ==
    /\ InitLive
    /\ [][NextLive]_vars
    /\ WF_vars(Receive)
    /\ WF_vars(InvokeHandler)
    /\ WF_vars(HandlerDone(AllOk, TRUE, TRUE))

(* --------------------------- throttled LLM call ------------------------ *)
\* agent classes whose handlers call the LLM: the BaseAgent handler
\* through _call_llm, the intake handler through kernel.invoke_prompt
LlmAgents == {"base_agent", "email_intake"}

\* the LLM call of the agent sits inside async with _openai_semaphore
uses_semaphore(a) == a \in BaseAgentClasses

\* a semaphore that lets every caller in
semaphore_free_always(value) == TRUE

\* asyncio.Semaphore: acquire returns at once iff the value is positive
semaphore_free(value) == value > 0

\* an except clause that tolerates one more rate-limit failure
gives_up_late(count, limit) == count > limit + 1

\* if retry_count > max_retries: raise
gives_up(count, limit) == count > limit

\* a slot taken with acquire() and given back only after a call that
\* returned
semaphore_exit_on_return_only(value, outcome) ==
    IF outcome = "ok" THEN value + 1 ELSE value

\* leaving the async with _openai_semaphore block, by return or by an
\* exception: __aexit__ releases the slot
semaphore_exit(value, outcome) == value + 1

\* a task still inside its LLM call
InCall == {"acquire", "calling", "pacing", "backoff"}

\* a handler task is started on a message: handle_message initializes the
\* kernel, then _call_llm enters its loop with retry_count = 0; the intake
\* handler goes to its extraction call directly
LlmInvoke(t) ==
    /\ tpc[t] = "idle"
    /\ retry_count' = [retry_count EXCEPT ![t] = 0]
    /\ toutcome' = [toutcome EXCEPT ![t] = "none"]
    /\ IF initialize_kernel_raises(tagent[t])
       THEN /\ tpc' = [tpc EXCEPT ![t] = "init_failed"]
            /\ attempts' = [attempts EXCEPT ![t] = 0]
       ELSE IF uses_semaphore(tagent[t])
       THEN /\ tpc' = [tpc EXCEPT ![t] = "acquire"]
            /\ attempts' = [attempts EXCEPT ![t] = 0]
       ELSE /\ tpc' = [tpc EXCEPT ![t] = "calling"]
            /\ attempts' = [attempts EXCEPT ![t] = 1]
    /\ UNCHANGED <<tagent, permits>>
    /\ UNCHANGED <<agent, stop, lphase, inbox, batch, cur, records, nrec,
                   last, sent, confirmations, nsent, ncalls>>
    /\ UNCHANGED busVars
    /\ UNCHANGED rxVars
    /\ UNCHANGED tripVars
    /\ UNCHANGED stageVars
    /\ UNCHANGED cosmosVars
    /\ UNCHANGED intakeVars

\* async with _openai_semaphore entered: get_chat_message_content starts
LlmAcquire(t) ==
    /\ tpc[t] = "acquire"
    /\ semaphore_free(permits)
    /\ permits' = permits - 1
    /\ tpc' = [tpc EXCEPT ![t] = "calling"]
    /\ attempts' = [attempts EXCEPT ![t] = @ + 1]
    /\ UNCHANGED <<tagent, retry_count, toutcome>>
    /\ UNCHANGED <<agent, stop, lphase, inbox, batch, cur, records, nrec,
                   last, sent, confirmations, nsent, ncalls>>
    /\ UNCHANGED busVars
    /\ UNCHANGED rxVars
    /\ UNCHANGED tripVars
    /\ UNCHANGED stageVars
    /\ UNCHANGED cosmosVars
    /\ UNCHANGED intakeVars

\* the LLM call ends: with a response, with RateLimitError, or with
\* another exception. An exception leaves the async with block, which
\* releases the slot, before the except clause runs
LlmResponds(t, outcome) ==
    /\ tpc[t] = "calling"
    /\ toutcome' = [toutcome EXCEPT ![t] = outcome]
    /\ IF ~uses_semaphore(tagent[t])
       THEN /\ tpc' = [tpc EXCEPT ![t] =
                          IF outcome = "ok" THEN "returned" ELSE "raised"]
            /\ UNCHANGED <<permits, retry_count>>
       ELSE IF outcome = "ok"
       THEN /\ tpc' = [tpc EXCEPT ![t] = "pacing"]
            /\ UNCHANGED <<permits, retry_count>>
       ELSE IF outcome = "rate_limit"
       THEN /\ permits' = semaphore_exit(permits, outcome)
            /\ retry_count' = [retry_count EXCEPT ![t] = @ + 1]
            /\ tpc' = [tpc EXCEPT ![t] =
                          IF gives_up(retry_count[t] + 1, max_retries)
                          THEN "raised" ELSE "backoff"]
       ELSE /\ permits' = semaphore_exit(permits, outcome)
            /\ tpc' = [tpc EXCEPT ![t] = "raised"]
            /\ UNCHANGED retry_count
    /\ UNCHANGED <<tagent, attempts>>
    /\ UNCHANGED <<agent, stop, lphase, inbox, batch, cur, records, nrec,
                   last, sent, confirmations, nsent, ncalls>>
    /\ UNCHANGED busVars
    /\ UNCHANGED rxVars
    /\ UNCHANGED tripVars
    /\ UNCHANGED stageVars
    /\ UNCHANGED cosmosVars
    /\ UNCHANGED intakeVars

\* await asyncio.sleep(3) inside the async with block is over: the slot
\* is released and the response returned
LlmPaced(t) ==
    /\ tpc[t] = "pacing"
    /\ permits' = semaphore_exit(permits, "ok")
    /\ tpc' = [tpc EXCEPT ![t] = "returned"]
    /\ UNCHANGED <<tagent, retry_count, attempts, toutcome>>
    /\ UNCHANGED <<agent, stop, lphase, inbox, batch, cur, records, nrec,
                   last, sent, confirmations, nsent, ncalls>>
    /\ UNCHANGED busVars
    /\ UNCHANGED rxVars
    /\ UNCHANGED tripVars
    /\ UNCHANGED stageVars
    /\ UNCHANGED cosmosVars
    /\ UNCHANGED intakeVars

\* await asyncio.sleep(total_delay) is over: while retry_count <=
\* max_retries is evaluated again; when it is false the function falls
\* off its end and returns None
LlmBackoffDone(t) ==
    /\ tpc[t] = "backoff"
    /\ tpc' = [tpc EXCEPT ![t] =
                  IF retry_count[t] <= max_retries
                  THEN "acquire" ELSE "returned"]
    /\ UNCHANGED <<tagent, retry_count, attempts, toutcome, permits>>
    /\ UNCHANGED <<agent, stop, lphase, inbox, batch, cur, records, nrec,
                   last, sent, confirmations, nsent, ncalls>>
    /\ UNCHANGED busVars
    /\ UNCHANGED rxVars
    /\ UNCHANGED tripVars
    /\ UNCHANGED stageVars
    /\ UNCHANGED cosmosVars
    /\ UNCHANGED intakeVars

\* the handler is over and the listener settles the message; the task is
\* free for the next message. When _call_llm raised, the except clause of
\* handle_message has called _send_exception_alert("TECHNICAL_ERROR",
\* "high", ...) before re-raising; the broker accepts what reaches it
LlmFinish(t) ==
    /\ tpc[t] \in {"returned", "raised", "init_failed"}
    /\ tpc' = [tpc EXCEPT ![t] = "idle"]
    /\ retry_count' = [retry_count EXCEPT ![t] = 0]
    /\ attempts' = [attempts EXCEPT ![t] = 0]
    /\ toutcome' = [toutcome EXCEPT ![t] = "none"]
    /\ sent' = IF tpc[t] = "raised"
               THEN sent \cup technical_error(tagent[t], AllOk)
               ELSE sent
    /\ UNCHANGED <<tagent, permits>>
    /\ UNCHANGED <<agent, stop, lphase, inbox, batch, cur, records, nrec,
                   last, confirmations, nsent, ncalls>>
    /\ UNCHANGED busVars
    /\ UNCHANGED rxVars
    /\ UNCHANGED tripVars
    /\ UNCHANGED stageVars
    /\ UNCHANGED cosmosVars
    /\ UNCHANGED intakeVars

\* the handler tasks of one process, each belonging to one agent
InitLlm ==
    /\ agent = "base_agent"
    /\ stop = FALSE
    /\ lphase = "receive"
    /\ inbox = <<>>
    /\ batch = <<>>
    /\ cur = NoMessage
    /\ records = [l \in Loans |-> NoRecord]
    /\ nrec = 0
    /\ last = NoLast
    /\ sent = {}
    /\ confirmations = [l \in Loans |-> 0]
    /\ nsent = 0
    /\ ncalls = 0
    /\ tagent \in [Tasks -> LlmAgents]
    /\ tpc = [t \in Tasks |-> "idle"]
    /\ retry_count = [t \in Tasks |-> 0]
    /\ attempts = [t \in Tasks |-> 0]
    /\ toutcome = [t \in Tasks |-> "none"]
    /\ permits = MAX_CONCURRENT_OPENAI_CALLS
    /\ BusIdle
    /\ RxIdle
    /\ TripIdle
    /\ StageIdle
    /\ CosmosIdle
    /\ IntakeIdle

NextLlm ==
    \/ \E t \in Tasks : LlmInvoke(t)
    \/ \E t \in Tasks : LlmAcquire(t)
    \/ \E t \in Tasks, o \in {"ok", "rate_limit", "error"} :
          LlmResponds(t, o)
    \/ \E t \in Tasks : LlmPaced(t)
    \/ \E t \in Tasks : LlmBackoffDone(t)
    \/ \E t \in Tasks : LlmFinish(t)

SpecLlm == InitLlm /\ [][NextLlm]_vars

\* the LLM service answers every call, the sleeps end, and a task waiting
\* for the semaphore gets a slot that is released again and again
\* (asyncio.Semaphore wakes its waiters in the order they came)
SpecLlmFair ==
    /\ SpecLlm
    /\ \A t \in Tasks :
          /\ SF_vars(LlmAcquire(t))
          /\ WF_vars(\E o \in {"ok", "rate_limit", "error"} :
                        LlmResponds(t, o))
          /\ WF_vars(LlmPaced(t))
          /\ WF_vars(LlmBackoffDone(t))

(* ------------------- ServiceBusOperations and credentials -------------- *)
\* a send_message that sends again when the broker refused the message
send_attempts_retrying(attempted, busOk) ==
    IF ~attempted THEN 0 ELSE IF busOk THEN 1 ELSE 2

\* calls of sender.send_messages one send_message call makes: one, unless
\* an exception was raised before it
send_attempts(attempted, busOk) == IF attempted THEN 1 ELSE 0

\* what one send_message call did: whether it returned True, the message
\* it put on the broker (routing properties are added for topics only),
\* and whether the credential taken from _get_servicebus_client was
\* closed: credential.close() follows the async with block, the except
\* clause only logs and returns False. clientOk: _get_servicebus_client
\* returned a client (it raises without the namespace setting); busOk:
\* the broker accepted the message; closeOk: credential.close() returned;
\* cancelled: the calling task was cancelled while the send was awaited
\* (CancelledError is no Exception, so the except clause lets it pass)
send_message_result(destination_name, destination_type, message_type, target_agent, priority, clientOk, busOk, closeOk, cancelled) ==
    LET known == /\ destination_type \in {"topic", "queue"}
                 /\ send_message(destination_name, destination_type, TRUE)
        attempted == clientOk /\ known
        accepted == attempted /\ busOk /\ ~cancelled
        ok == accepted /\ closeOk
        props == accepted /\ destination_type = "topic"
    IN  [ok |-> ok,
         released |-> ~clientOk \/ ok,
         dest |-> IF accepted THEN destination_name ELSE "none",
         kind |-> IF accepted THEN destination_type ELSE "none",
         MessageType |-> IF props THEN message_type ELSE "none",
         TargetAgent |-> IF props THEN target_agent ELSE "none",
         Priority |-> IF props THEN priority ELSE "none",
         clientOk |-> clientOk, closeOk |-> closeOk,
         attempts |-> send_attempts(attempted, busOk),
         accepted |-> accepted,
         raised |-> attempted /\ cancelled,
         cancelled |-> cancelled,
         destination_name |-> destination_name,
         destination_type |-> destination_type]

\* ServiceBusOperations.send_exception_alert with the message it sends
send_exception_alert_result(priority, clientOk, busOk, closeOk) ==
    IF priority \in {"high", "critical"}
    THEN send_message_result("high-priority-exceptions", "queue",
                             "exception_alert", "exception_handler",
                             priority, clientOk, busOk, closeOk, FALSE)
    ELSE send_message_result("agent-workflow-events", "topic",
                             "exception_alert", "exception_handler",
                             priority, clientOk, busOk, closeOk, FALSE)

\* receive_messages and receive_queue_messages: the credential is closed
\* after the for loop and in the except clause, but not on the early
\* return [] taken when the receive call yields no message
receive_messages_released(outcome) == outcome # "empty"

\* the instance keeps a credential it did not close in
\* _active_credentials
credentials_after(creds, inst, released) ==
    IF released THEN creds ELSE [creds EXCEPT ![inst] = @ + 1]

BusOp(op, inst, priority, busOk, r) ==
    [op |-> op, inst |-> inst, priority |-> priority, busOk |-> busOk,
     ok |-> r.ok, dest |-> r.dest, kind |-> r.kind,
     MessageType |-> r.MessageType, TargetAgent |-> r.TargetAgent,
     Priority |-> r.Priority, clientOk |-> r.clientOk,
     closeOk |-> r.closeOk, attempts |-> r.attempts,
     accepted |-> r.accepted, raised |-> r.raised,
     cancelled |-> r.cancelled,
     destination_name |-> r.destination_name,
     destination_type |-> r.destination_type]

\* a client calls send_message on an instance (the plugin methods and the
\* send_* helpers all end here)
BusSend(inst, destination_name, destination_type, message_type, clientOk, busOk, closeOk, cancelled) ==
    /\ ~shutdown
    /\ nops < MaxBusOps
    /\ nops' = nops + 1
    /\ LET r == send_message_result(destination_name, destination_type,
                                    message_type, "unknown", "normal",
                                    clientOk, busOk, closeOk, cancelled)
       IN  /\ busop' = BusOp("send_message", inst, "none", busOk, r)
           /\ active_credentials' =
                 credentials_after(active_credentials, inst, r.released)
           /\ open_credentials' =
                 credentials_after(open_credentials, inst, r.released)
    /\ UNCHANGED <<listening, shutdown>>
    /\ UNCHANGED <<agent, stop, lphase, inbox, batch, cur, records, nrec,
                   last, sent, confirmations, nsent, ncalls>>
    /\ UNCHANGED llmVars
    /\ UNCHANGED rxVars
    /\ UNCHANGED tripVars
    /\ UNCHANGED stageVars
    /\ UNCHANGED cosmosVars
    /\ UNCHANGED intakeVars

\* a client calls send_exception_alert on an instance
BusSendExceptionAlert(inst, priority, clientOk, busOk, closeOk) ==
    /\ ~shutdown
    /\ nops < MaxBusOps
    /\ nops' = nops + 1
    /\ LET r == send_exception_alert_result(priority, clientOk, busOk,
                                            closeOk)
       IN  /\ busop' = BusOp("send_exception_alert", inst, priority, busOk,
                             r)
           /\ active_credentials' =
                 credentials_after(active_credentials, inst, r.released)
           /\ open_credentials' =
                 credentials_after(open_credentials, inst, r.released)
    /\ UNCHANGED <<listening, shutdown>>
    /\ UNCHANGED <<agent, stop, lphase, inbox, batch, cur, records, nrec,
                   last, sent, confirmations, nsent, ncalls>>
    /\ UNCHANGED llmVars
    /\ UNCHANGED rxVars
    /\ UNCHANGED tripVars
    /\ UNCHANGED stageVars
    /\ UNCHANGED cosmosVars
    /\ UNCHANGED intakeVars

\* main.py polls with receive_messages or receive_queue_messages
BusReceive(op, outcome) ==
    /\ ~shutdown
    /\ nops < MaxBusOps
    /\ nops' = nops + 1
    /\ busop' = [NoBusOp EXCEPT !.op = op, !.inst = "main",
                                !.busOk = outcome # "error",
                                !.ok = outcome = "messages"]
    /\ active_credentials' =
          credentials_after(active_credentials, "main",
                            receive_messages_released(outcome))
    /\ open_credentials' =
          credentials_after(open_credentials, "main",
                            receive_messages_released(outcome))
    /\ UNCHANGED <<listening, shutdown>>
    /\ UNCHANGED <<agent, stop, lphase, inbox, batch, cur, records, nrec,
                   last, sent, confirmations, nsent, ncalls>>
    /\ UNCHANGED llmVars
    /\ UNCHANGED rxVars
    /\ UNCHANGED tripVars
    /\ UNCHANGED stageVars
    /\ UNCHANGED cosmosVars
    /\ UNCHANGED intakeVars

\* listen_to_subscription or listen_to_queue starts: it takes a
\* credential and keeps it while it listens
ListenerStart ==
    /\ ~shutdown
    /\ listening < MaxListeners
    /\ listening' = listening + 1
    /\ active_credentials' = [active_credentials EXCEPT !["main"] = @ + 1]
    /\ open_credentials' = [open_credentials EXCEPT !["main"] = @ + 1]
    /\ UNCHANGED <<busop, shutdown, nops>>
    /\ UNCHANGED <<agent, stop, lphase, inbox, batch, cur, records, nrec,
                   last, sent, confirmations, nsent, ncalls>>
    /\ UNCHANGED llmVars
    /\ UNCHANGED rxVars
    /\ UNCHANGED tripVars
    /\ UNCHANGED stageVars
    /\ UNCHANGED cosmosVars
    /\ UNCHANGED intakeVars

\* a listener leaves its loop (stop signal, cancellation or a fatal
\* error): the finally clause closes its credential
ListenerExit ==
    /\ listening > 0
    /\ listening' = listening - 1
    /\ active_credentials' = [active_credentials EXCEPT !["main"] = @ - 1]
    /\ open_credentials' = [open_credentials EXCEPT !["main"] = @ - 1]
    /\ UNCHANGED <<busop, shutdown, nops>>
    /\ UNCHANGED <<agent, stop, lphase, inbox, batch, cur, records, nrec,
                   last, sent, confirmations, nsent, ncalls>>
    /\ UNCHANGED llmVars
    /\ UNCHANGED rxVars
    /\ UNCHANGED tripVars
    /\ UNCHANGED stageVars
    /\ UNCHANGED cosmosVars
    /\ UNCHANGED intakeVars

\* shutdown_system: the stop events are set, the listener tasks are
\* waited for and what still runs is cancelled and gathered, so every
\* listener has gone through its finally clause; the agents' close()
\* closes nothing of the bus; then cleanup_all_credentials runs on the
\* main instance only
ShutdownSystem ==
    /\ ~shutdown
    /\ shutdown' = TRUE
    /\ listening' = 0
    /\ active_credentials' = [active_credentials EXCEPT !["main"] = 0]
    /\ open_credentials' = [open_credentials EXCEPT !["main"] = 0]
    /\ UNCHANGED <<busop, nops>>
    /\ UNCHANGED <<agent, stop, lphase, inbox, batch, cur, records, nrec,
                   last, sent, confirmations, nsent, ncalls>>
    /\ UNCHANGED llmVars
    /\ UNCHANGED rxVars
    /\ UNCHANGED tripVars
    /\ UNCHANGED stageVars
    /\ UNCHANGED cosmosVars
    /\ UNCHANGED intakeVars

InitBus ==
    /\ agent = "base_agent"
    /\ stop = FALSE
    /\ lphase = "receive"
    /\ inbox = <<>>
    /\ batch = <<>>
    /\ cur = NoMessage
    /\ records = [l \in Loans |-> NoRecord]
    /\ nrec = 0
    /\ last = NoLast
    /\ sent = {}
    /\ confirmations = [l \in Loans |-> 0]
    /\ nsent = 0
    /\ ncalls = 0
    /\ LlmIdle
    /\ BusIdle
    /\ RxIdle
    /\ TripIdle
    /\ StageIdle
    /\ CosmosIdle
    /\ IntakeIdle

\* destination names the callers of send_message pass
Destinations ==
    {<<"agent-workflow-events", "topic">>, <<"loan_lifecycle", "topic">>,
     <<"outbound_email", "topic">>, <<"outbound_confirmations", "queue">>,
     <<"high-priority-exceptions", "queue">>,
     <<"agent-workflow-events", "subscription">>}

NextBus ==
    \/ \E i \in Instances, d \in Destinations,
          t \in {"rate_quoted", "audit_event"}, cl \in BOOLEAN,
          ok \in BOOLEAN, cs \in BOOLEAN, ca \in BOOLEAN :
          BusSend(i, d[1], d[2], t, cl, ok, cs, ca)
    \/ \E i \in Instances, p \in {"critical", "high", "medium", "low"},
          cl \in BOOLEAN, ok \in BOOLEAN, cs \in BOOLEAN :
          BusSendExceptionAlert(i, p, cl, ok, cs)
    \/ \E op \in {"receive_messages", "receive_queue_messages"},
          o \in {"empty", "messages", "error"} : BusReceive(op, o)
    \/ ListenerStart
    \/ ListenerExit
    \/ ShutdownSystem

SpecBus == InitBus /\ [][NextBus]_vars

(* ------------------------------- claims -------------------------------- *)
\* the handler was invoked on the last settled message and returned
HandlerReturned == last.kind = "handled" /\ ~last.res.raised

\* the handler or the normalization of the last settled message raised
HandlerRaised ==
    \/ last.kind = "normfail"
    \/ last.kind = "handled" /\ last.res.raised

\* C1 as stated: a message received while the stop signal was not set is
\* completed iff the handler returned without raising and abandoned iff
\* the handler or the normalization raised, never both
C1_CompleteIffReturned ==
    last.kind # "none" =>
        /\ last.completeCalled <=> HandlerReturned
        /\ last.abandonCalled <=> HandlerRaised
        /\ ~(last.completed /\ last.abandoned)

\* C1 amended: for a message whose turn comes while the stop signal is not
\* set, complete_message is called iff normalization and handler returned
\* without raising, and abandon_message is called iff normalization, the
\* handler or complete_message itself raised; a message whose turn comes
\* after the stop signal was set is abandoned without running the handler;
\* no message is both completed and abandoned
C1_Settlement ==
    /\ last.kind \in {"handled", "normfail"} =>
          /\ last.completeCalled <=> HandlerReturned
          /\ last.abandonCalled <=> (HandlerRaised \/ last.completeRaised)
    /\ last.kind = "stopped" =>
          last.abandonCalled /\ ~last.completeCalled
    /\ ~(last.completed /\ last.abandoned)

\* the handler returned, complete_message raised, the message was abandoned
C1_Witness ==
    /\ HandlerReturned
    /\ last.completeRaised
    /\ last.abandoned

\* C2 as stated: an exception while a handler processes a message of its
\* expected type is caught, a TECHNICAL_ERROR alert is emitted, nothing is
\* re-raised, and the message is completed, not abandoned
C2_FailureIsCompleted ==
    (last.kind = "handled" /\ last.expected /\ last.res.excepted) =>
        /\ "TECHNICAL_ERROR" \in last.res.alerts
        /\ ~last.res.raised
        /\ last.completeCalled
        /\ ~last.abandonCalled

\* C3 as stated: on a message of an unexpected type the handler reads and
\* changes no record, emits nothing, raises nothing, and the message is
\* completed, not abandoned
C3_UnexpectedIsNoOp ==
    (last.kind = "handled" /\ ~last.expected) =>
        /\ ~last.res.read
        /\ ~last.res.upd
        /\ last.res.wf = {}
        /\ last.res.alerts = {}
        /\ ~last.res.raised
        /\ last.completeCalled
        /\ ~last.abandonCalled

\* position of a status on the path of the workflow, 0 off the path
Rank(s) ==
    CASE s = "PENDING_CONTEXT"    -> 1
      [] s = "CONTEXT_RETRIEVED"  -> 2
      [] s = "RATES_QUOTED"       -> 3
      [] s = "COMPLIANCE_CHECKED" -> 4
      [] s = "LOCKED"             -> 5
      [] OTHER                    -> 0

C7_Transitions ==
    {<<"email_intake", "email_parsed", "loan_context">>,
     <<"loan_context", "context_retrieved", "rate_quote">>,
     <<"rate_quote", "rate_quoted", "compliance_risk">>,
     <<"compliance_risk", "compliance_passed", "lock_confirmation">>}

\* C7 as stated: a stage that sends a workflow message on success sends
\* the type of its transition (email_parsed, context_retrieved,
\* rate_quoted, compliance_passed), and the stage the transition drives
\* treats that type as expected: it is not discarded as unexpected
C7_SuccessTypeAccepted ==
    \A c \in C7_Transitions :
        /\ (agent = c[1] /\ last.kind = "handled" /\ last.res.wf # {}) =>
               last.res.wf = {c[2]}
        /\ (agent = c[3] /\ last.kind = "handled" /\ last.mtype = c[2]) =>
               last.expected

\* C8 as stated: with every collaborator call succeeding, all compliance
\* checks passing and every sent message delivered, an application accepted
\* by intake (record PENDING_CONTEXT, its message waiting on the workflow
\* topic) eventually reaches LOCKED, and its status moves one stage at a
\* time through CONTEXT_RETRIEVED, RATES_QUOTED and COMPLIANCE_CHECKED
C8_AcceptedEventuallyLocked ==
    /\ \A l \in Loans :
          (/\ records[l].status = "PENDING_CONTEXT"
           /\ \E i \in 1..Len(inbox) : inbox[i].loan = l)
             ~> (records[l].status = "LOCKED")
    /\ [][\A l \in Loans :
             records'[l].status # records[l].status =>
                Rank(records'[l].status) = Rank(records[l].status) + 1]_vars

C10_RetryOnlyOnRateLimit ==
    /\ [](\A t \in Tasks :
            /\ attempts[t] <= max_retries + 1
            /\ tpc[t] = "backoff" => toutcome[t] = "rate_limit"
            /\ tpc[t] = "returned" => toutcome[t] = "ok"
            /\ tpc[t] = "raised" =>
                  \/ toutcome[t] = "error"
                  \/ /\ toutcome[t] = "rate_limit"
                     /\ attempts[t] = max_retries + 1)
    /\ [][\A t \in Tasks :
             (tpc[t] = "calling" /\ tpc'[t] # "calling"
                 /\ toutcome'[t] = "error") =>
                tpc'[t] = "raised"]_vars
    /\ \A t \in Tasks :
          (tpc[t] \in InCall) ~> (tpc[t] \in {"returned", "raised"})

\* the sixth attempt failed with a rate-limit error and _call_llm raised
C10_Witness ==
    \E t \in Tasks :
        /\ tpc[t] = "raised"
        /\ toutcome[t] = "rate_limit"
        /\ attempts[t] = max_retries + 1
        /\ retry_count[t] = max_retries + 1

\* C11 as stated: when the handler of an invocation whose rate-limit
\* retries are exhausted is over, a TECHNICAL_ERROR alert of priority
\* high has been sent to the broker
C11_ExhaustionAlertSent ==
    [][\A t \in Tasks :
          (/\ tpc[t] = "raised"
           /\ toutcome[t] = "rate_limit"
           /\ retry_count[t] > max_retries
           /\ tpc'[t] = "idle") =>
             "TECHNICAL_ERROR" \in sent']_vars

\* C13 as stated: the normalized message takes its message_type from the
\* MessageType routing property when the message carries one, and from
\* the message_type field of the body only when the property is absent
C13_PropertiesTakePrecedence ==
    [][(lphase = "handling" /\ last'.kind = "handled" /\ cur' = NoMessage) =>
          last'.mtype = IF cur.ptype # "none" THEN cur.ptype
                        ELSE cur.btype]_vars

\* C14 as stated: normalizing a received message never raises, whatever
\* the body: no message is abandoned because its normalization failed
C14_NormalizationNeverRaises ==
    last.kind # "normfail"

\* C12 as stated: whenever the broker accepts the message,
\* send_exception_alert succeeds; priority high or critical goes to the
\* high-priority exceptions queue, medium or low to the workflow topic
\* with MessageType exception_alert, TargetAgent exception_handler and
\* Priority set to the priority
C12_PriorityRouting ==
    (busop.op = "send_exception_alert" /\ busop.clientOk /\ busop.busOk
        /\ busop.closeOk) =>
        /\ busop.ok
        /\ busop.priority \in {"high", "critical"} =>
              /\ busop.kind = "queue"
              /\ busop.dest \in queues
        /\ busop.priority \in {"medium", "low"} =>
              /\ busop.kind = "topic"
              /\ busop.dest = "agent-workflow-events"
              /\ busop.MessageType = "exception_alert"
              /\ busop.TargetAgent = "exception_handler"
              /\ busop.Priority = busop.priority

\* C15 as stated: a send_message, receive_messages or
\* receive_queue_messages call leaves no credential behind, whichever way
\* it returns: the open credentials and the tracked credentials of the
\* instance are what they were before the call
C15_CredentialReleased ==
    [][(nops' # nops
          /\ busop'.op \in {"send_message", "receive_messages",
                             "receive_queue_messages"}) =>
          /\ open_credentials' = open_credentials
          /\ active_credentials' = active_credentials]_vars

\* C16 as stated: once shutdown_system has returned, no credential of
\* either ServiceBusOperations instance is open
C16_NoCredentialOpenAfterShutdown ==
    shutdown => \A i \in Instances : open_credentials[i] = 0

\* C17 as stated: once the stop signal is set no handler invocation
\* starts and no batch is pulled, every message of the batch not yet
\* handed to the handler is abandoned, and a handler already in flight
\* runs to its end and its message is settled
C17_StopAsStated ==
    [][stop =>
          /\ lphase' = "handling" => lphase = "handling"
          /\ batch' # batch => Len(batch') < Len(batch)
          /\ (lphase = "batch" /\ batch' # batch) =>
                /\ last'.kind = "stopped"
                /\ last'.abandonCalled
                /\ batch' = Tail(batch)
          /\ (lphase = "handling" /\ lphase' # "handling") =>
                /\ last'.kind = "handled"
                /\ last'.completeCalled \/ last'.abandonCalled]_vars

\* C17 amended: once the stop signal is set no handler invocation starts
\* and no batch is pulled; abandon_message is called, and the handler is
\* not, on each message of the batch whose turn comes, and the rest of
\* the batch is left unsettled only when an abandon call raises; a handler
\* already in flight either runs to its end, after which its message is
\* settled, or is cut short by the cancellation of the listener task,
\* which leaves its message and the rest of the batch unsettled
C17_StopSemantics ==
    [][stop =>
          /\ lphase' = "handling" => lphase = "handling"
          /\ batch' # batch => Len(batch') < Len(batch)
          /\ (lphase = "batch" /\ batch' # batch) =>
                /\ last'.kind = "stopped"
                /\ last'.abandonCalled /\ ~last'.completeCalled
                /\ batch' = Tail(batch) \/ (~last'.abandoned /\ batch' = <<>>)
          /\ (lphase = "handling" /\ lphase' # "handling") =>
                \/ /\ last'.kind = "handled"
                   /\ last'.completeCalled \/ last'.abandonCalled
                \/ /\ lphase' = "exited"
                   /\ last' = last
                   /\ batch' = <<>>]_vars

\* the listener task was cancelled while its first handler invocation
\* was in flight: nothing was ever settled, and the message is back on
\* the subscription for its second delivery
C17_Witness ==
    /\ stop
    /\ lphase = "exited"
    /\ last.kind = "none"
    /\ \E i \in 1..Len(inbox) : inbox[i].dc = 2

\* ------------------------------------------------------------------
\* The listener started on a subscription that already holds a backlog
\* ------------------------------------------------------------------

MaxBacklog == 4

\* what a backlog is made of: a message of the type the agent's
\* predecessor sends, and one whose body does not decode
BacklogKinds(a) ==
    {<<"rate_quoted", NominalType(a), TRUE>>,
     <<"rate_quoted", "none", FALSE>>}

Backlog(a) ==
    UNION {[1..n -> {[ptype |-> k[1], btype |-> k[2], loan |-> l,
                      decodable |-> k[3], dc |-> 1] :
                        k \in BacklogKinds(a), l \in Loans}] :
              n \in 0..MaxBacklog}

InitBatch ==
    /\ agent \in Agents
    /\ stop = FALSE
    /\ lphase = "receive"
    /\ inbox \in Backlog(agent)
    /\ batch = <<>>
    /\ cur = NoMessage
    /\ records = [l \in Loans |->
                     create_rate_lock_record(NoRecord, 1, "PENDING_CONTEXT",
                                             FALSE, TRUE)]
    /\ nrec = 1
    /\ last = NoLast
    /\ sent = {}
    /\ confirmations = [l \in Loans |-> 0]
    /\ nsent = 0
    /\ ncalls = 0
    /\ LlmIdle
    /\ BusIdle
    /\ RxIdle
    /\ TripIdle
    /\ StageIdle
    /\ CosmosIdle
    /\ IntakeIdle

\* receiver.receive_messages raised: except Exception as receive_error
\* logs, sleeps 5 s, and the loop goes on
ReceiveFails ==
    /\ lphase = "receive"
    /\ ~stop
    /\ last' = [NoLast EXCEPT !.kind = "recvfail"]
    /\ UNCHANGED <<agent, stop, lphase, inbox, batch, cur, records, nrec,
                   sent, confirmations, nsent, ncalls>>
    /\ UNCHANGED llmVars
    /\ UNCHANGED busVars
    /\ UNCHANGED rxVars
    /\ UNCHANGED tripVars
    /\ UNCHANGED stageVars
    /\ UNCHANGED cosmosVars
    /\ UNCHANGED intakeVars

NextBatch ==
    \/ Receive
    \/ ReceiveFails
    \/ \E aOk \in BOOLEAN : AbandonOnStop(aOk)
    \/ \E aOk \in BOOLEAN : NormalizationRaises(aOk)
    \/ InvokeHandler
    \/ \E e \in Env, cOk \in BOOLEAN, aOk \in BOOLEAN :
          HandlerDone(e, cOk, aOk)
    \/ SetStop
    \/ LoopExit
    \/ Cancel

SpecBatch == InitBatch /\ [][NextBatch]_vars

\* C19: within one listener a batch never holds more than
\* max_message_count = 3 messages, at most one handler invocation is in
\* flight, a handler starts only when none is in flight, and the next
\* message of a batch gets its turn only after the one before it was
\* completed or abandoned
C19_SequentialBatch ==
    /\ [](Len(batch) + (IF cur = NoMessage THEN 0 ELSE 1)
             <= max_message_count)
    /\ []((lphase = "handling") <=> (cur # NoMessage))
    /\ [][(cur' # NoMessage /\ cur' # cur) =>
             /\ cur = NoMessage
             /\ lphase = "batch"
             /\ cur' = Head(batch)
             /\ batch' = Tail(batch)]_vars
    /\ [][(batch' # batch /\ batch' # <<>> /\ lphase' = "batch"
             /\ lphase # "receive") =>
             /\ batch' = (IF lphase = "handling" THEN batch
                          ELSE Tail(batch))
             /\ last'.completed \/ last'.abandoned]_vars

\* a batch of three was pulled from a backlog of four, and the handler of
\* its second message is in flight after the first was settled
C19_Witness ==
    /\ Len(inbox) >= 1
    /\ Len(batch) = 1
    /\ lphase = "handling"
    /\ last.kind = "handled"
    /\ inbox[1].dc = 1

\* ------------------------------------------------------------------
\* The compliance stage
\* ------------------------------------------------------------------

\* the checks run_compliance_check reports on
CheckNames ==
    {"trid_3_day_rule", "state_lending_laws", "fee_reasonableness",
     "disclosure_accuracy"}

\* the checks it lets fail: none, or one (the pre-determined failure of
\* loan LA67890, or the random one)
FailingChoices == {{}} \cup {{c} : c \in CheckNames}

\* ComplianceOperations.run_compliance_check: every check is in the
\* result, overall_status is all(check["passed"])
run_compliance_check(failing) ==
    LET checks == [c \in CheckNames |-> [passed |-> c \notin failing]]
    IN  [overall_status |-> IF \A c \in CheckNames : checks[c].passed
                            THEN "Passed" ELSE "Failed",
         checks |-> checks]

\* C20: with every collaborator call succeeding, the compliance handler
\* given rates_presented for an existing record reports on all checks;
\* when a check failed the record's status becomes ComplianceFailed, a
\* medium-priority COMPLIANCE_FAILURE alert is sent and compliance_passed
\* is not; compliance_passed is sent iff every check passed
C20_ComplianceStage ==
    [][\A e \in Env, failing \in FailingChoices :
          (/\ agent = "compliance_risk"
           /\ lphase = "handling"
           /\ create_standard_message(cur).mtype = "rates_presented"
           /\ records[cur.loan].exists
           /\ e.ext /\ e.store /\ e.bus
           /\ e.passed =
                 (run_compliance_check(failing).overall_status = "Passed")
           /\ HandlerDone(e, TRUE, TRUE))
          => LET r == run_compliance_check(failing)
                 res == last'.res
             IN  /\ DOMAIN r.checks = CheckNames
                 /\ (r.overall_status = "Passed")
                       <=> (\A c \in CheckNames : r.checks[c].passed)
                 /\ failing # {} =>
                       /\ records'[cur.loan].status = "ComplianceFailed"
                       /\ "COMPLIANCE_FAILURE" \in res.alerts
                       /\ "compliance_passed" \notin res.wf
                 /\ ("compliance_passed" \in res.wf) <=> (failing = {})
      ]_vars

\* C18: once shutdown_system has set the stop signal the listener task
\* eventually exits, by leaving its loop or by being cancelled, and
\* shutdown_system returns, and it returns only when the task has exited
C18_ListenersExitOnShutdown ==
    /\ stop ~> (lphase = "exited")
    /\ stop ~> shutdown
    /\ [](shutdown => lphase = "exited")

\* shutdown_system has returned after cancelling the listener while its
\* handler was in flight
C18_Witness ==
    /\ shutdown
    /\ lphase = "exited"
    /\ last.kind = "none"
    /\ \E i \in 1..Len(inbox) : inbox[i].dc > 1

\* ------------------------------------------------------------------
\* Failures inside the exception handler and the audit stage
\* ------------------------------------------------------------------

\* C21: handle_message of the exception handler stage never raises into
\* the listener, whatever fails inside it, and never sends an exception
\* alert itself
C21_ExceptionHandlerNeverRaises ==
    (agent = "exception_handler" /\ last.kind = "handled")
        => /\ ~last.res.raised
           /\ last.res.alerts = {}

\* C22: in the audit stage a failure to persist the audit record is
\* escalated as a LOGGING_FAILURE exception alert; when sending that
\* alert fails too nothing is sent, and handle_message returns without
\* raising in either case
C22_AuditFailureEscalated ==
    [][\A e \in Env :
          (/\ agent = "audit_logging"
           /\ lphase = "handling"
           /\ create_standard_message(cur).mtype = "audit_event"
           /\ ~e.store
           /\ HandlerDone(e, TRUE, TRUE))
          => /\ ~last'.res.raised
             /\ e.bus => "LOGGING_FAILURE" \in last'.res.alerts
             /\ ~e.bus => last'.res.alerts = {}
      ]_vars

\* ------------------------------------------------------------------
\* The intake stage and the loan id the extraction call returns
\* ------------------------------------------------------------------

Text(t) == [none |-> FALSE, text |-> t]

\* answers of _extract_loan_data_with_llm for the loan_application_id field
ExtractedIds ==
    {NoId,
     Text(<<>>),
     Text(<<"n", "u", "l", "l">>),
     Text(<<"u", "n", "k", "n", "o", "w", "n">>),
     Text(<<"A", "P", "P", "-", "X", "X", "X", "X">>),
     Text(<<"A", "P", "P", "-", "X", "X", "X", "1">>),
     Text(<<"X", "X", "X", "X", "-", "1">>),
     Text(<<"L", "A", "-", "1">>)}

\* not loan_application_id or loan_application_id in [None, "", "null",
\* "unknown"]
missing_loan_id(x) ==
    \/ x.none
    \/ x.text = <<>>
    \/ x.text \in {<<"n", "u", "l", "l">>,
                   <<"u", "n", "k", "n", "o", "w", "n">>}

\* str.startswith
startswith(t, prefix) ==
    /\ Len(t) >= Len(prefix)
    /\ SubSeq(t, 1, Len(prefix)) = prefix

\* str.count of one character
count(t, ch) == Cardinality({i \in 1..Len(t) : t[i] = ch})

\* loan_application_id.startswith("APP-") and
\* loan_application_id.count("X") >= 4
placeholder_loan_id(x) ==
    /\ ~x.none
    /\ startswith(x.text, <<"A", "P", "P", "-">>)
    /\ count(x.text, "X") >= 4

IntakeResult(x, e, raised, outbound, created, wf, alerts) ==
    [pc |-> "done", extracted |-> x, e |-> e, raised |-> raised,
     outbound |-> outbound, created |-> created, wf |-> wf,
     alerts |-> alerts]

\* _request_loan_id_from_user: send_outbound_message raises when the
\* message was not queued; create_rate_lock under the temporary id is
\* inside a try of its own
request_loan_id_from_user(x, e) ==
    IF /\ "send_outbound_message" \in ServiceBusPluginMethods
       /\ send_message("outbound_confirmations", "queue", e.bus)
    THEN IntakeResult(x, e, FALSE, {"request_missing_id"},
                      IF "create_rate_lock" \in CosmosDBPluginMethods
                         /\ e.store
                      THEN "temporary" ELSE "none", {}, {})
    ELSE IntakeResult(x, e, FALSE, {}, "none", {},
                      technical_error("email_intake", e))

\* _process_raw_email_with_llm
process_raw_email_with_llm(x, e) ==
    IF ~e.ext
    THEN IntakeResult(x, e, FALSE, {}, "none", {},
                      technical_error("email_intake", e))
    ELSE IF missing_loan_id(x) \/ placeholder_loan_id(x)
    THEN request_loan_id_from_user(x, e)
    ELSE IF send_message(success_topic("email_intake"), "topic", e.bus)
    THEN IntakeResult(x, e, FALSE, {},
                      IF e.store THEN "loan" ELSE "none",
                      {success_message_type("email_intake")}, {})
    ELSE IntakeResult(x, e, FALSE, {}, IF e.store THEN "loan" ELSE "none",
                      {}, technical_error("email_intake", e))

\* EmailIntakeAgent.handle_message, given the answer x of the extraction
\* call
email_intake_handle_message(x, e) ==
    IF initialize_kernel_raises("email_intake")
    THEN IntakeResult(x, e, TRUE, {}, "none", {}, {})
    ELSE IF ~standard_message_is_text
    THEN IntakeResult(x, e, FALSE, {}, "none", {},
                      technical_error("email_intake", e))
    ELSE process_raw_email_with_llm(x, e)

\* the intake listener hands one inbound email to the handler
IntakeHandle(x, e) ==
    /\ intake' = email_intake_handle_message(x, e)
    /\ UNCHANGED <<agent, stop, lphase, inbox, batch, cur, records, nrec,
                   last, sent, confirmations, nsent, ncalls>>
    /\ UNCHANGED llmVars
    /\ UNCHANGED busVars
    /\ UNCHANGED rxVars
    /\ UNCHANGED tripVars
    /\ UNCHANGED stageVars
    /\ UNCHANGED cosmosVars

InitIntake ==
    /\ Init
    /\ agent = "email_intake"

NextIntake == \E x \in ExtractedIds, e \in Env : IntakeHandle(x, e)

SpecIntake == InitIntake /\ [][NextIntake]_vars

\* C23: when the extraction call returns a null, empty or placeholder
\* loan id (and the broker and the store accept what they are given), the
\* intake stage sends a 'request missing id' outbound message and creates
\* a record under a temporary id, and sends no context_retrieval_needed
C23_MissingIdRequested ==
    (/\ intake.pc = "done"
     /\ missing_loan_id(intake.extracted)
           \/ placeholder_loan_id(intake.extracted)
     /\ intake.e.ext /\ intake.e.store /\ intake.e.bus)
        => /\ "request_missing_id" \in intake.outbound
           /\ intake.created = "temporary"
           /\ "context_retrieval_needed" \notin intake.wf

\* C24: a stage handler given a message of its type for a loan that has
\* no record sends a TECHNICAL_ERROR exception alert with priority high
\* (the broker accepting it), changes no record and sends no next-stage
\* message
C24_MissingRecordAlert ==
    [][\A e \in Env :
          (/\ agent \in {"rate_quote", "compliance_risk",
                         "lock_confirmation"}
           /\ lphase = "handling"
           /\ create_standard_message(cur).mtype
                 \in expected_message_types(agent)
           /\ ~records[cur.loan].exists
           /\ e.bus
           /\ HandlerDone(e, TRUE, TRUE))
          => /\ "TECHNICAL_ERROR" \in last'.res.alerts
             /\ records' = records
             /\ last'.res.wf = {}
      ]_vars

\* ------------------------------------------------------------------
\* send_message: one attempt, a boolean answer
\* ------------------------------------------------------------------

MaxInstants == 2

\* the clock shows this many seconds after the first one
MaxSeconds == 1

\* the partitions of the container that are used
CosmosLoans == {"LA1", "LA2"}

\* the id a caller puts into rate_lock_data itself
GivenId == <<"given", "X", 0>>

\* 'id': rate_lock_data.get('id', f"rate_lock_{loan}_{%Y%m%d_%H%M%S}")
record_id_of(loan_application_id, given, second) ==
    IF given THEN GivenId ELSE <<"rate_lock", loan_application_id, second>>

\* the record create_rate_lock_record builds from rate_lock_data
new_record(loan_application_id, given, status, second, instant) ==
    [id |-> record_id_of(loan_application_id, given, second),
     loanApplicationId |-> loan_application_id,
     created_at |-> instant,
     status |-> status,
     last_updated_by |-> "none",
     etag |-> 0]

\* the item of a partition with an id, if there is one
item_with(its, item, partition_key) ==
    {it \in its : it.id = item /\ it.loanApplicationId = partition_key}

\* container.upsert_item: an item with the id of the body is replaced
create_item_upserting(its, body) ==
    [ok |-> TRUE,
     items |-> (its \ item_with(its, body.id, body.loanApplicationId))
                  \cup {body}]

\* container.create_item: the id of an item is unique in its partition,
\* a second item with it is refused (CosmosResourceExistsError)
create_item(its, body) ==
    IF item_with(its, body.id, body.loanApplicationId) = {}
    THEN [ok |-> TRUE, items |-> its \cup {body}]
    ELSE [ok |-> FALSE, items |-> its]

\* container.read_item: the item, or CosmosResourceNotFoundError
read_item(its, item, partition_key) ==
    IF item_with(its, item, partition_key) = {}
    THEN [found |-> FALSE, value |-> NoItem]
    ELSE [found |-> TRUE,
          value |-> CHOOSE it \in item_with(its, item, partition_key) : TRUE]

\* ORDER BY c.created_at DESC
RECURSIVE order_by_created_at_desc(_)
order_by_created_at_desc(S) ==
    IF S = {}
    THEN <<>>
    ELSE LET first == CHOOSE x \in S :
                         \A y \in S : y.created_at <= x.created_at
         IN  <<first>> \o order_by_created_at_desc(S \ {first})

\* container.query_items with the query of get_rate_lock_record
query_items(its, loan_app_id) ==
    order_by_created_at_desc({it \in its : it.loanApplicationId = loan_app_id})

\* get_rate_lock_record without its except clauses
get_rate_lock_record_raising(its, loan_application_id, record_id, storeOk) ==
    IF ~storeOk
    THEN [raised |-> TRUE, found |-> FALSE, value |-> NoItem]
    ELSE IF record_id # NoItemId
    THEN LET response == read_item(its, record_id, loan_application_id)
         IN  [raised |-> ~response.found, found |-> response.found,
              value |-> response.value]
    ELSE LET rs == query_items(its, loan_application_id)
         IN  IF rs # <<>>
             THEN [raised |-> FALSE, found |-> TRUE, value |-> Head(rs)]
             ELSE [raised |-> FALSE, found |-> FALSE, value |-> NoItem]

\* CosmosDBOperations.get_rate_lock_record: record_id NoItemId is None
get_rate_lock_record(its, loan_application_id, record_id, storeOk) ==
    IF ~storeOk
    THEN [raised |-> FALSE, found |-> FALSE, value |-> NoItem]
    ELSE IF record_id # NoItemId
    THEN LET response == read_item(its, record_id, loan_application_id)
         IN  [raised |-> FALSE, found |-> response.found,
              value |-> response.value]
    ELSE LET rs == query_items(its, loan_application_id)
         IN  IF rs # <<>>
             THEN [raised |-> FALSE, found |-> TRUE, value |-> Head(rs)]
             ELSE [raised |-> FALSE, found |-> FALSE, value |-> NoItem]

\* the status and the updates dict (a set of key and value) each caller of
\* an update passes
UpdateCalls(u) ==
    IF u = "u1"
    THEN {<<"RATES_QUOTED", {<<"last_updated_by", "rate_quote">>}>>}
    ELSE {<<"COMPLIANCE_CHECKED", {}>>,
          <<"COMPLIANCE_CHECKED",
            {<<"last_updated_by", "compliance">>,
             <<"status", "EXCEPTION">>}>>}

\* current_record['status'] = status; current_record.update(updates)
update_fields(current_record, status, updates) ==
    LET r1 == [current_record EXCEPT !.status = status]
        val(k) == IF \E p \in updates : p[1] = k
                  THEN (CHOOSE p \in updates : p[1] = k)[2]
                  ELSE r1[k]
    IN  [r1 EXCEPT !.status = val("status"),
                   !.last_updated_by = val("last_updated_by")]

\* container.replace_item under an if-match condition on the etag read
replace_item_if_match(its, item, body) ==
    LET old == item_with(its, item, body.loanApplicationId)
    IN  IF old = {} \/ \E it \in old : it.etag # body.etag
        THEN [ok |-> FALSE, items |-> its]
        ELSE [ok |-> TRUE,
              items |-> (its \ old) \cup {[body EXCEPT !.etag = @ + 1]}]

\* container.replace_item(item=record_id, body=current_record): the item
\* is replaced by the body whatever it holds now
replace_item(its, item, body) ==
    LET old == item_with(its, item, body.loanApplicationId)
    IN  IF old = {}
        THEN [ok |-> FALSE, items |-> its]
        ELSE [ok |-> TRUE,
              items |-> (its \ old) \cup
                   {[body EXCEPT !.etag =
                        (CHOOSE it \in old : TRUE).etag + 1]}]

\* the variables of the rest of the program, untouched by the store calls
CosmosFrame ==
    /\ UNCHANGED <<agent, stop, lphase, inbox, batch, cur, records, nrec,
                   last, sent, confirmations, nsent, ncalls>>
    /\ UNCHANGED llmVars
    /\ UNCHANGED busVars
    /\ UNCHANGED rxVars
    /\ UNCHANGED tripVars
    /\ UNCHANGED stageVars
    /\ UNCHANGED intakeVars

\* a second passes
Tick ==
    /\ sec < MaxSeconds
    /\ sec' = sec + 1
    /\ UNCHANGED <<items, now, cosmoscall, upd>>
    /\ CosmosFrame

\* a call of create_rate_lock_record
CosmosCreate(l, given, status, storeOk) ==
    /\ now < MaxInstants
    /\ now' = now + 1
    /\ LET body == new_record(l, given, status, sec, now + 1)
           r == IF storeOk THEN create_item(items, body)
                ELSE [ok |-> FALSE, items |-> items]
       IN  /\ items' = r.items
           /\ cosmoscall' = [NoCosmosCall EXCEPT
                                !.op = "create", !.loan = l,
                                !.record_id = body.id,
                                !.storeOk = storeOk, !.ok = r.ok]
    /\ UNCHANGED <<sec, upd>>
    /\ CosmosFrame

\* a call of get_rate_lock_record
CosmosGet(l, record_id, storeOk) ==
    /\ LET r == get_rate_lock_record(items, l, record_id, storeOk)
       IN  cosmoscall' = [NoCosmosCall EXCEPT
                             !.op = "get", !.loan = l,
                             !.record_id = record_id,
                             !.storeOk = storeOk, !.raised = r.raised,
                             !.found = r.found, !.value = r.value]
    /\ UNCHANGED <<items, sec, now, upd>>
    /\ CosmosFrame

\* the read_item and replace_item calls the update calls have made so far
StoreSteps ==
    Cardinality({v \in Updaters : upd[v].pc # "idle"})
       + Cardinality({v \in Updaters : upd[v].wrote_at > 0})

\* update_rate_lock_status up to its replace_item call: the record is
\* read and changed in memory
UpdateRead(u, l, record_id, status, updates, storeOk) ==
    /\ upd[u].pc = "idle"
    /\ LET response == read_item(items, record_id, l)
       IN  upd' = [upd EXCEPT ![u] =
                     IF storeOk /\ response.found
                     THEN [NoUpdate EXCEPT
                              !.pc = "read", !.loan = l,
                              !.record_id = record_id, !.status = status,
                              !.updates = updates,
                              !.current_record =
                                  update_fields(response.value, status,
                                                updates),
                              !.read_at = StoreSteps + 1]
                     ELSE [NoUpdate EXCEPT
                              !.pc = "done", !.loan = l,
                              !.record_id = record_id, !.status = status,
                              !.updates = updates, !.storeOk = storeOk,
                              !.res = FALSE]]
    /\ UNCHANGED <<items, sec, now, cosmoscall>>
    /\ CosmosFrame

\* update_rate_lock_status from its replace_item call to its return
UpdateWrite(u, storeOk) ==
    /\ upd[u].pc = "read"
    /\ LET r == IF storeOk
                THEN replace_item(items, upd[u].record_id,
                                  upd[u].current_record)
                ELSE [ok |-> FALSE, items |-> items]
       IN  /\ items' = r.items
           /\ upd' = [upd EXCEPT
                        ![u].pc = "done",
                        ![u].storeOk = storeOk,
                        ![u].res = r.ok,
                        ![u].wrote_at = StoreSteps + 1]
    /\ UNCHANGED <<sec, now, cosmoscall>>
    /\ CosmosFrame

\* the ids a caller may know: those of the items, and one of no item
KnownIds == {it.id : it \in items} \cup {NoItemId}

InitCosmos == InitStore

NextCosmos ==
    \/ Tick
    \/ \E l \in CosmosLoans, given \in BOOLEAN, ok \in BOOLEAN :
          CosmosCreate(l, given, "PendingRequest", ok)
    \/ \E l \in CosmosLoans, id \in KnownIds, ok \in BOOLEAN :
          CosmosGet(l, id, ok)

\* the record store under create and get calls
SpecCosmos == InitCosmos /\ [][NextCosmos]_vars

NextUpdate ==
    \/ \E l \in CosmosLoans, given \in BOOLEAN, ok \in BOOLEAN :
          CosmosCreate(l, given, "PendingRequest", ok)
    \/ \E u \in Updaters :
          \E l \in CosmosLoans, id \in KnownIds, c \in UpdateCalls(u),
             ok \in BOOLEAN :
             UpdateRead(u, l, id, c[1], c[2], ok)
    \/ \E u \in Updaters, ok \in BOOLEAN : UpdateWrite(u, ok)

\* the record store under create calls and two update calls that may run
\* at the same time
SpecUpdate == InitCosmos /\ [][NextUpdate]_vars

\* C28: get_rate_lock_record never raises; it returns None when the store
\* call fails and when there is no record to return (no item with the
\* given record id in the partition of the loan, or no item of the loan at
\* all); otherwise it returns the record: the item with the given id, or,
\* called without a record id, the newest item of the loan
C28_GetNeverRaises ==
    [][\A l \in CosmosLoans, id \in KnownIds, ok \in BOOLEAN :
          CosmosGet(l, id, ok) =>
             LET r == cosmoscall'
                 mine == {it \in items : it.loanApplicationId = l}
                 hits == IF id = NoItemId
                         THEN {it \in mine :
                                 \A o \in mine : o.created_at <= it.created_at}
                         ELSE {it \in mine : it.id = id}
             IN  /\ ~r.raised
                 /\ r.found <=> (ok /\ hits # {})
                 /\ r.found => r.value \in hits
                 /\ ~r.found => r.value = NoItem]_vars

\* a get by loan id returned the newer of two records of the loan
C28_Witness ==
    /\ cosmoscall.op = "get"
    /\ cosmoscall.record_id = NoItemId
    /\ cosmoscall.found
    /\ \E it \in items :
          /\ it.loanApplicationId = cosmoscall.loan
          /\ it.created_at < cosmoscall.value.created_at

\* the items of a loan
items_of(its, l) == {it \in its : it.loanApplicationId = l}

\* C29 as stated: a create for a loan that already has a record, on a
\* working store, reports success and overwrites the record: afterwards
\* the loan has exactly one record, and it carries the initial status
C29_DuplicateOverwrites ==
    [][\A l \in CosmosLoans, given \in BOOLEAN :
          (/\ items_of(items, l) # {}
           /\ CosmosCreate(l, given, "PendingRequest", TRUE)) =>
             /\ cosmoscall'.ok
             /\ Cardinality(items_of(items', l)) = 1
             /\ \A it \in items_of(items', l) : it.status = "PendingRequest"
      ]_vars

\* C29 amended: a create for a loan that already has a record, on a
\* working store, overwrites nothing. When the id of the new record is the
\* id of a record of the loan (the same second, or the same id given by
\* the caller) the create reports failure and the container is unchanged;
\* otherwise it reports success, every record there was is kept as it was,
\* the loan has one record more, and a get by loan id returns the new
\* record, which carries the initial status. On a failing store the create
\* reports failure and changes nothing
C29_DuplicateAdds ==
    [][\A l \in CosmosLoans, given \in BOOLEAN, ok \in BOOLEAN :
          (/\ items_of(items, l) # {}
           /\ CosmosCreate(l, given, "PendingRequest", ok)) =>
             LET id == record_id_of(l, given, sec)
                 clash == \E it \in items_of(items, l) : it.id = id
                 newest == get_rate_lock_record(items', l, NoItemId, TRUE)
             IN  /\ cosmoscall'.ok <=> (ok /\ ~clash)
                 /\ ~cosmoscall'.ok => items' = items
                 /\ cosmoscall'.ok =>
                       /\ items \subseteq items'
                       /\ Cardinality(items_of(items', l)) =
                             Cardinality(items_of(items, l)) + 1
                       /\ newest.found
                       /\ newest.value.id = id
                       /\ newest.value \notin items
                       /\ newest.value.status = "PendingRequest"
      ]_vars

\* a second create for a loan succeeded and the loan has two records
C29_Witness ==
    /\ cosmoscall.op = "create"
    /\ cosmoscall.ok
    /\ Cardinality(items_of(items, cosmoscall.loan)) = 2
    /\ \E it \in items : it.id = cosmoscall.record_id

\* both update calls are over, they were given the same record, both read
\* it before either called replace_item, and the store failed neither call
Interleaved ==
    /\ \A u \in Updaters : upd[u].storeOk
    /\ \A u \in Updaters : upd[u].pc = "done" /\ upd[u].wrote_at > 0
    /\ upd["u1"].record_id = upd["u2"].record_id
    /\ upd["u1"].loan = upd["u2"].loan
    /\ \A u, v \in Updaters : upd[u].read_at < upd[v].wrote_at

\* the update call that replaced the record last
LaterWriter ==
    CHOOSE u \in Updaters : \A v \in Updaters : upd[v].wrote_at <= upd[u].wrote_at

\* the update call that replaced the record first
EarlierWriter == CHOOSE u \in Updaters : u # LaterWriter

\* the record both update calls read
ReadByBoth(it) ==
    /\ it.id = upd[LaterWriter].record_id
    /\ it.loanApplicationId = upd[LaterWriter].loan

\* C30: when two update_rate_lock_status calls on one record interleave
\* (both read before either writes) on a working store, both report
\* success and the later write wins: the record is what the later writer
\* read with its own status and updates applied, so the status written by
\* the other call is gone, and so is every field the other call wrote that
\* the later one did not write itself
C30_LastWriteWins ==
    Interleaved =>
        /\ \A u \in Updaters : upd[u].res
        /\ \E it \in items : ReadByBoth(it)
        /\ \A it \in items :
           ReadByBoth(it) =>
              LET w == upd[LaterWriter]
                  o == upd[EarlierWriter]
              IN  /\ it.status = w.current_record.status
                  /\ it.last_updated_by = w.current_record.last_updated_by
                  /\ it.created_at = w.current_record.created_at
                  /\ it.status = (IF \E p \in w.updates : p[1] = "status"
                                  THEN "EXCEPTION" ELSE w.status)
                  /\ (~\E p \in w.updates : p[1] = "last_updated_by") =>
                        it.last_updated_by = "none"
                  /\ it.status # o.current_record.status

\* two interleaved updates both reported success, and the status and the
\* last_updated_by field the first one wrote are not in the record
C30_Witness ==
    /\ Interleaved
    /\ \A u \in Updaters : upd[u].res
    /\ \E it \in items :
          /\ ReadByBoth(it)
          /\ upd[EarlierWriter].current_record.last_updated_by = "rate_quote"
          /\ it.last_updated_by = "none"
          /\ it.status = "COMPLIANCE_CHECKED"

\* ------------------------------------------------------------------
\* The stage listeners side by side
\* ------------------------------------------------------------------

\* the status a stage writes into the record
stage_status(a, e) ==
    CASE a = "rate_quote"        -> "RateOptionsPresented"
      [] a = "rate_quote_old"    -> "RATES_QUOTED"
      [] a = "compliance_risk"   -> IF e.passed THEN "CompliancePassed"
                                    ELSE "ComplianceFailed"
      [] OTHER                   -> "Locked"

\* TRUE iff the call a handler makes at a step goes through
step_ok(a, step, rec, e) ==
    CASE step = "read" ->
            IF a = "rate_quote_old"
            THEN rec.exists /\ e.store /\ rec.ctx
            ELSE record_fetched(rec, e) /\ (a = "rate_quote" => rec.ctx)
      [] step = "ext" ->
            /\ e.ext
            /\ a = "lock_confirmation" =>
                  "execute_rate_lock" \in PricingEnginePluginMethods
      [] step = "notify" ->
            /\ "send_message_to_topic" \in ServiceBusPluginMethods
            /\ send_message("outbound_email", "topic", e.bus)
      [] step = "write" ->
            \/ a = "rate_quote_old"
            \/ "update_rate_lock" \in CosmosDBPluginMethods
      [] OTHER -> TRUE

\* a handler that sends the message for the next stage before it updates
\* the record
step_after_emitting_first(a, step, ok, e) ==
    CASE ~ok               -> "alert"
      [] step = "read"     -> "ext"
      [] step = "ext"      -> IF a = "lock_confirmation" THEN "notify"
                              ELSE "emit"
      [] step = "emit"     -> "write"
      [] step = "notify"   -> "write"
      [] OTHER             -> "return"

\* the order of the awaited calls in the try block of handle_message: the
\* record is fetched, the external collaborator is called, (the lock stage
\* sends its notifications,) the record is updated, and then the audit and
\* the workflow message are sent; any failure leads to the except clause
step_after(a, step, ok, e) ==
    CASE ~ok               -> "alert"
      [] step = "read"     -> "ext"
      [] step = "ext"      -> IF a = "lock_confirmation" THEN "notify"
                              ELSE "write"
      [] step = "notify"   -> "write"
      [] step = "write"    -> IF a = "lock_confirmation" THEN "return"
                              ELSE IF a = "compliance_risk" /\ ~e.passed
                              THEN "alert"
                              ELSE "emit"
      [] OTHER             -> "return"

\* TRUE iff the stage's helper for workflow messages sends the message
stage_sends(a, e) ==
    IF a \in BaseAgentClasses
    THEN agent_send_workflow_event(e)
    ELSE agent_send_workflow_message(e)

\* the variables of the rest of the program, untouched by the stages
StageFrame ==
    /\ UNCHANGED <<agent, stop, lphase, inbox, batch, cur, nrec, last, sent,
                   confirmations, nsent, ncalls>>
    /\ UNCHANGED llmVars
    /\ UNCHANGED busVars
    /\ UNCHANGED rxVars
    /\ UNCHANGED tripVars
    /\ UNCHANGED cosmosVars
    /\ UNCHANGED intakeVars

\* the context stage's message reaches the topic, once for an
\* application: every subscription of the topic gets its copy
PublishContextRetrieved(l) ==
    LET m == [mtype |-> "context_retrieved", loan |-> l,
              by |-> "loan_context", dc |-> 1]
    IN  /\ m \notin published
        /\ published' = published \cup {m}
        /\ subscription' = [a \in StageAgents |-> subscription[a] \cup {m}]
        /\ UNCHANGED <<hpc, hmsg, wrote, records>>
        /\ StageFrame

\* a listener hands a waiting message to its handler
StageReceive(a) ==
    /\ hpc[a] = "idle"
    /\ \E m \in subscription[a] :
          /\ hmsg' = [hmsg EXCEPT ![a] = m]
          /\ subscription' = [subscription EXCEPT ![a] = @ \ {m}]
    /\ hpc' = [hpc EXCEPT ![a] = "init"]
    /\ UNCHANGED <<wrote, published, records>>
    /\ StageFrame

\* handle_message up to its try block: _initialize_kernel and the type
\* check. When it raises the listener abandons the message, which comes
\* back until its delivery count is used up
StageInit(a) ==
    /\ hpc[a] = "init"
    /\ IF initialize_kernel_raises(a)
       THEN /\ hpc' = [hpc EXCEPT ![a] = "idle"]
            /\ hmsg' = [hmsg EXCEPT ![a] = NoStageMessage]
            /\ subscription' =
                  [subscription EXCEPT ![a] =
                      IF hmsg[a].dc < MaxDelivery
                      THEN @ \cup {[hmsg[a] EXCEPT !.dc = @ + 1]}
                      ELSE @]
       ELSE IF hmsg[a].mtype \notin expected_message_types(a)
       THEN /\ hpc' = [hpc EXCEPT ![a] = "idle"]
            /\ hmsg' = [hmsg EXCEPT ![a] = NoStageMessage]
            /\ UNCHANGED subscription
       ELSE /\ hpc' = [hpc EXCEPT ![a] = "read"]
            /\ UNCHANGED <<hmsg, subscription>>
    /\ UNCHANGED <<wrote, published, records>>
    /\ StageFrame

\* the handler makes the next awaited call of its try block, or runs its
\* except clause, and returns after the last one
StageStep(a, e) ==
    /\ hpc[a] \in {"read", "ext", "notify", "write", "emit", "alert"}
    /\ LET step == hpc[a]
           l == hmsg[a].loan
           ok == step_ok(a, step, records[l], e)
           to == step_after(a, step, ok, e)
           m == [mtype |-> success_message_type(a), loan |-> l, by |-> a,
                 dc |-> 1]
           sends == step = "emit" /\ stage_sends(a, e)
       IN  /\ records' =
                 IF step = "write" /\ ok
                 THEN [records EXCEPT ![l] =
                          update_rate_lock_status(@, stage_status(a, e),
                                                  NoPatch, e.store)]
                 ELSE records
           /\ wrote' = IF step = "write" /\ ok
                       THEN wrote \cup
                               {<<a, l, update_succeeds(records[l], e.store)>>}
                       ELSE wrote
           /\ published' = IF sends THEN published \cup {m} ELSE published
           /\ subscription' =
                 IF sends /\ m \notin published
                 THEN [b \in StageAgents |-> subscription[b] \cup {m}]
                 ELSE subscription
           /\ hpc' = [hpc EXCEPT ![a] = IF to = "return" THEN "idle" ELSE to]
           /\ hmsg' = [hmsg EXCEPT ![a] =
                          IF to = "return" THEN NoStageMessage ELSE @]
    /\ StageFrame

InitStages == Init /\ agent = "base_agent"

NextStages ==
    \/ \E l \in Loans : PublishContextRetrieved(l)
    \/ \E a \in StageAgents : StageReceive(a)
    \/ \E a \in StageAgents : StageInit(a)
    \/ \E a \in StageAgents, e \in Env : StageStep(a, e)

\* the stage listeners running side by side on their subscriptions of the
\* workflow topic, every message delivered once to each of them
SpecStages == InitStages /\ [][NextStages]_vars

\* a handler is between the start of its record read and the return of
\* its record update
Processing(a) == hpc[a] \in {"read", "ext", "notify", "write"}

intake_record_status == "PENDING_CONTEXT"

\* CosmosDBPlugin.create_rate_lock: 'status': 'PendingRequest' comes
\* before **extra_data in rate_lock_data, so a status in additional_data
\* replaces it ("none": additional_data has no status)
create_rate_lock_status(extra_status) ==
    IF extra_status = "none" THEN "PendingRequest" ELSE extra_status

\* C32: for every inbound email from which the extraction call returns a
\* real loan application id (the store and the broker accepting what they
\* are given), the intake stage creates a record under that id, with
\* status PENDING_CONTEXT and not the store's default status
C32_IntakeCreatesRecord ==
    (/\ intake.pc = "done"
     /\ ~missing_loan_id(intake.extracted)
     /\ ~placeholder_loan_id(intake.extracted)
     /\ intake.e.ext /\ intake.e.store /\ intake.e.bus)
        => /\ ~intake.raised
           /\ intake.created = "loan"
           /\ create_rate_lock_status(intake_record_status)
                 = "PENDING_CONTEXT"

C34_StatusIsNewStatus ==
    [][\A l \in Loans, s \in Statuses, p \in Patches :
          (update_succeeds(records[l], TRUE) /\ StoreUpdate(l, s, p, TRUE)) =>
             /\ records'[l].status = s
             /\ records'[l].rid = records[l].rid
             /\ records'[l].ctx = records[l].ctx
             /\ records'[l].exists]_vars

Holding ==
    {t \in Tasks : uses_semaphore(tagent[t]) /\ tpc[t] \in {"calling", "pacing"}}

\* C36: the throttle never leaks a slot: the slots held are exactly those
\* of the tasks inside the async with block of _call_llm, so a slot is
\* released on every way out (return, rate-limit error, other exception)
\* and is not held during the backoff sleep; the number of held slots
\* stays between 0 and MAX_CONCURRENT_OPENAI_CALLS, and it is 0 whenever
\* no _call_llm invocation is in progress
C36_NoSlotLeak ==
    /\ MAX_CONCURRENT_OPENAI_CALLS - permits = Cardinality(Holding)
    /\ permits \in 0..MAX_CONCURRENT_OPENAI_CALLS
    /\ \A t \in Tasks :
          tpc[t] \in {"backoff", "acquire", "raised", "returned", "idle"} =>
             t \notin Holding
    /\ (\A t \in Tasks : uses_semaphore(tagent[t]) => tpc[t] \notin InCall) =>
          permits = MAX_CONCURRENT_OPENAI_CALLS

\* a task sleeps before its retry after a rate-limit error while the
\* other slots are in use: its own slot is free
C36_Witness ==
    /\ \E t \in Tasks :
          /\ tpc[t] = "backoff"
          /\ uses_semaphore(tagent[t])
    /\ \E t \in Tasks : t \in Holding
    /\ permits = MAX_CONCURRENT_OPENAI_CALLS - Cardinality(Holding)
    /\ permits > 0

\* ------------------------------------------------------------------
\* Settlement of a received batch
\* ------------------------------------------------------------------

\* C37: every message of a batch is completed or abandoned before the
\* listener's next receive call, even when complete_message or
\* abandon_message fails: the step that settles a message leaves it
\* completed or abandoned, and the loop goes back to its receive call
\* only when no message of the batch is left
C37_BatchSettled ==
    [][(lphase \in {"batch", "handling"} /\ lphase' \in {"receive", "batch"}) =>
          /\ last'.completed \/ last'.abandoned
          /\ lphase' = "receive" =>
                (IF lphase = "batch" THEN Tail(batch) ELSE batch) = <<>>]_vars

\* ------------------------------------------------------------------
\* Lock confirmation and the persisted status
\* ------------------------------------------------------------------

truthy(v) == v \notin {PyNone, ""}

\* a or b
py_or(a, b) == IF truthy(a) THEN a ELSE b

\* d.get(k)
dict_get(d, k) == IF k \in DOMAIN d THEN d[k] ELSE PyNone

\* the keys of the body that the listener reads
RoutingKeys == {"message_type", "loan_application_id"}

TripTypes == {"context_retrieved", "rates_presented"}
TripLoans == {"LA1", "LA2"}
DataValues == {"", "compliance_passed"}
Correlations == {PyNone, "LA1", "CORR-1"}

\* message_data: a payload with or without keys of its own named like
\* the routing fields
MessageData == UNION {[K -> DataValues] : K \in SUBSET RoutingKeys}

\* {"message_type": message_type, "loan_application_id": ..., **message_data}
workflow_message(message_type, loan_application_id, message_data) ==
    [k \in RoutingKeys \cup DOMAIN message_data |->
        IF k \in DOMAIN message_data THEN message_data[k]
        ELSE IF k = "message_type" THEN message_type
        ELSE loan_application_id]

\* json.dumps of a dict of strings: the members in the order of the dict
json_dumps(d) ==
    <<<<"message_type", d["message_type"]>>,
      <<"loan_application_id", d["loan_application_id"]>>>>

\* json.loads of an object: a dict of its members, the last of a
\* repeated name winning
json_loads(text) ==
    [k \in {text[i][1] : i \in DOMAIN text} |->
        LET last_i == CHOOSE i \in DOMAIN text :
                         /\ text[i][1] = k
                         /\ \A j \in DOMAIN text : text[j][1] = k => j <= i
        IN  text[last_i][2]]

\* the application properties send_message gives a message for a topic
routing_properties(message_type, correlation_id) ==
    [k \in {"MessageType"} \cup
           (IF truthy(correlation_id) THEN {"LoanApplicationId"} ELSE {}) |->
        IF k = "MessageType" THEN py_or(message_type, "unknown")
        ELSE correlation_id]

\* _create_standard_message: the routing properties first, then the
\* fields of the body when they are truthy
standard_message(msg) ==
    LET parsed_body == json_loads(msg.body)
        props == msg.application_properties
    IN  [message_type |-> py_or(dict_get(parsed_body, "message_type"),
                                dict_get(props, "MessageType")),
         loan_application_id |->
             py_or(dict_get(parsed_body, "loan_application_id"),
                   dict_get(props, "LoanApplicationId")),
         correlation_id |-> msg.correlation_id]

TripFrame ==
    /\ UNCHANGED <<agent, stop, lphase, inbox, batch, cur, records, nrec,
                   last, sent, confirmations, nsent, ncalls>>
    /\ UNCHANGED llmVars
    /\ UNCHANGED busVars
    /\ UNCHANGED rxVars
    /\ UNCHANGED stageVars
    /\ UNCHANGED cosmosVars
    /\ UNCHANGED intakeVars

\* send_workflow_message(T, L, D, C): the body is built, send_message
\* puts it on the workflow topic with its routing properties
SendWorkflowMessage(T, L, D, C, busOk) ==
    /\ wfcall.pc = "idle"
    /\ LET correlation_id == py_or(C, L)
           ok == send_message("agent-workflow-events", "topic", busOk)
       IN  /\ wfcall' = [pc |-> IF ok THEN "sent" ELSE "failed",
                         message_type |-> T, loan_application_id |-> L,
                         message_data |-> D, correlation_id |-> C,
                         ok |-> ok]
           /\ wire' = IF ok
                      THEN [body |-> json_dumps(workflow_message(T, L, D)),
                            correlation_id |-> correlation_id,
                            application_properties |->
                                routing_properties(T, correlation_id)]
                      ELSE NoWire
    /\ normalized' = NoNormalized
    /\ TripFrame

\* the listener receives the message and normalizes it for the handler
ReceiveWorkflowMessage ==
    /\ wfcall.pc = "sent"
    /\ normalized' = standard_message(wire)
    /\ wfcall' = [wfcall EXCEPT !.pc = "received"]
    /\ UNCHANGED wire
    /\ TripFrame

InitTrip == InitStore

NextTrip ==
    \/ \E T \in TripTypes, L \in TripLoans, D \in MessageData,
          C \in Correlations, busOk \in BOOLEAN :
          SendWorkflowMessage(T, L, D, C, busOk)
    \/ ReceiveWorkflowMessage

SpecTrip == InitTrip /\ [][NextTrip]_vars

\* C39: a workflow message sent with send_workflow_message(T, L, D, C)
\* and normalized by the listener has message_type T and
\* loan_application_id L, whatever D and C are
C39_RoundTrip ==
    wfcall.pc = "received" =>
       /\ normalized.message_type = wfcall.message_type
       /\ normalized.loan_application_id = wfcall.loan_application_id

\* ------------------------------------------------------------------
\* The receive-once operations
\* ------------------------------------------------------------------

MaxReceives == 2
MaxWaiting == 2

\* receiver.receive_messages is called without max_message_count, whose
\* default is one message
default_max_message_count == 1

ReceiveOnceOps == {"receive_messages", "receive_queue_messages"}

\* bodies as the sender wrote them
RxBodies == {"json", "text", "empty"}

\* the messages waiting on the entity when the first call is made
Waiting ==
    UNION {[1..n -> [id : 1..MaxWaiting, body : RxBodies, dc : {1}]] :
              n \in 0..MaxWaiting}

\* the 'body' of the dict the caller gets: receive_messages parses JSON
\* and wraps anything else as raw_content, receive_queue_messages hands
\* the text on as it is
parsed_body(op, body) ==
    IF op = "receive_messages"
    THEN IF body = "json" THEN <<"dict", body>>
         ELSE <<"raw_content", IF body = "empty" THEN "" ELSE body>>
    ELSE <<"str", IF body = "empty" THEN "" ELSE body>>

message_dict(op, msg) ==
    [message_id |-> msg.id, body |-> parsed_body(op, msg.body),
     delivery_count |-> msg.dc]

\* a message that is delivered again
redelivered(msg) == [msg EXCEPT !.dc = @ + 1]

RxFrame ==
    /\ UNCHANGED <<agent, stop, lphase, inbox, batch, cur, records, nrec,
                   last, sent, confirmations, nsent, ncalls>>
    /\ UNCHANGED llmVars
    /\ UNCHANGED busVars
    /\ UNCHANGED tripVars
    /\ UNCHANGED stageVars
    /\ UNCHANGED cosmosVars
    /\ UNCHANGED intakeVars

\* the call up to the for loop: the client, the receiver and one
\* receiver.receive_messages; a failure of any of them is caught by the
\* outer except clause, which returns []
ReceiveOnce(op, recvOk) ==
    /\ rx.pc = "idle"
    /\ rx.calls < MaxReceives
    /\ LET n == IF recvOk
                THEN IF Len(rx.entity) < default_max_message_count
                     THEN Len(rx.entity) ELSE default_max_message_count
                ELSE 0
       IN  rx' = [rx EXCEPT
                     !.op = op,
                     !.calls = @ + 1,
                     !.received_msgs = SubSeq(rx.entity, 1, n),
                     !.entity = SubSeq(rx.entity, n + 1, Len(rx.entity)),
                     !.messages = <<>>,
                     !.completed = {},
                     !.abandoned = {},
                     !.unsettled = {},
                     !.result = <<>>,
                     !.pc = IF n = 0 THEN "returned" ELSE "loop"]
    /\ RxFrame

\* the body of the for loop: the dict is appended to messages, then the
\* message is completed; when complete_message raises the except clause
\* abandons the message, and when abandon_message raises as well the
\* exception leaves the loop for the outer except clause, which returns []
ReceiveOnceMessage(completeOk, abandonOk) ==
    /\ rx.pc = "loop"
    /\ rx.received_msgs # <<>>
    /\ LET msg == Head(rx.received_msgs)
           rest == Tail(rx.received_msgs)
           appended == Append(rx.messages, message_dict(rx.op, msg))
       IN  rx' =
             IF completeOk
             THEN [rx EXCEPT !.messages = appended,
                             !.completed = @ \cup {msg.id},
                             !.received_msgs = rest]
             ELSE IF abandonOk
             THEN [rx EXCEPT !.messages = appended,
                             !.abandoned = @ \cup {msg.id},
                             !.entity = Append(@, redelivered(msg)),
                             !.received_msgs = rest]
             ELSE [rx EXCEPT !.messages = appended,
                             !.unsettled =
                                 {m.id : m \in {rx.received_msgs[i] :
                                           i \in DOMAIN rx.received_msgs}},
                             !.entity =
                                 @ \o [i \in DOMAIN rx.received_msgs |->
                                         redelivered(rx.received_msgs[i])],
                             !.received_msgs = <<>>,
                             !.result = <<>>,
                             !.pc = "returned"]
    /\ RxFrame

\* after the loop: credential.close() inside the try, then return
\* messages; when the close raises, the outer except clause returns []
ReceiveOnceReturn(closeOk) ==
    /\ rx.pc = "loop"
    /\ rx.received_msgs = <<>>
    /\ rx' = [rx EXCEPT !.result = IF closeOk THEN rx.messages ELSE <<>>,
                        !.pc = "returned"]
    /\ RxFrame

\* the caller polls again
ReceiveOnceAgain ==
    /\ rx.pc = "returned"
    /\ rx.calls < MaxReceives
    /\ rx' = [rx EXCEPT !.pc = "idle"]
    /\ RxFrame

InitRx ==
    /\ agent = "base_agent"
    /\ stop = FALSE
    /\ lphase = "receive"
    /\ inbox = <<>>
    /\ batch = <<>>
    /\ cur = NoMessage
    /\ records = [l \in Loans |-> NoRecord]
    /\ nrec = 0
    /\ last = NoLast
    /\ sent = {}
    /\ confirmations = [l \in Loans |-> 0]
    /\ nsent = 0
    /\ ncalls = 0
    /\ LlmIdle
    /\ BusIdle
    /\ TripIdle
    /\ StageIdle
    /\ CosmosIdle
    /\ IntakeIdle
    /\ \E w \in Waiting :
          /\ \A i, j \in DOMAIN w : w[i].id = w[j].id => i = j
          /\ rx = [NoRx EXCEPT !.entity = w]

NextRx ==
    \/ \E op \in ReceiveOnceOps, recvOk \in BOOLEAN : ReceiveOnce(op, recvOk)
    \/ \E completeOk \in BOOLEAN, abandonOk \in BOOLEAN :
          ReceiveOnceMessage(completeOk, abandonOk)
    \/ \E closeOk \in BOOLEAN : ReceiveOnceReturn(closeOk)
    \/ ReceiveOnceAgain

SpecRx == InitRx /\ [][NextRx]_vars

\* the ids of the messages in the list a call returned
returned_ids == {rx.result[i].message_id : i \in DOMAIN rx.result}

\* C40: the list a receive-once call returns holds exactly the messages
\* the call completed, and no message it abandoned for redelivery
C40_ReturnedAreCompleted ==
    rx.pc = "returned" =>
       /\ returned_ids = rx.completed
       /\ returned_ids \cap rx.abandoned = {}

====
